---------------------------- MODULE Spec2Model ----------------------------
(***************************************************************************)
(* A model of the source-tracker symbol engine: the Deduplicator           *)
(* (SymbolParser.filterAndDeduplicateSymbols), the conditional-block       *)
(* analyzer (updateIfdefDecorations), the SymbolDatabase store and the     *)
(* build / open-folder handlers that drive them.                           *)
(*                                                                         *)
(* Each component has its own specification (SpecDedup, SpecIfdef,         *)
(* SpecStore, SpecApp) over the shared variables; a specification leaves   *)
(* the variables of the other components at their initial value.           *)
(***************************************************************************)
EXTENDS Integers, Sequences, FiniteSets, TLC

VARIABLES
    \* filterAndDeduplicateSymbols: the list iterated so far, the Map, the
    \* returned array and the position of the function
    symbols, map, filtered, filterPc,
    \* updateIfdefDecorations: the defines mapping, the lines of the editor
    \* model read so far, the loop counter, the frame stack, the completed
    \* blocks, the per-line flags and the position of the function
    definesMap, text, lineNumber, stack, blocks, inactiveLines, ifdefPc,
    \* SymbolDatabase: the backing files on disk, the fields db, dbPath and
    \* SQL of the object
    fs, db, dbPath, SQL,
    \* what the caller of the store has seen and done: the last call with
    \* its result, the paths saveSymbols was called with, the last list saved
    \* for each path, the progress of an open-save-close sequence and the
    \* number of saveSymbols calls
    lastCall, savedPaths, lastSaved, roundTrip, saves,
    \* the main process: the folder in use, the index of the SymbolParser
    \* and the invocations of the handlers that have not returned
    currentProjectPath, symbolIndex, handlers,
    \* what the callers of the index have done and seen: the symbols given
    \* to it since it was last cleared, whether the last push threw, and the
    \* last findDefinition call with its result
    indexCalls, lastPush, lastFound,
    \* parseCppSymbols: the lines of the content read so far, the symbols
    \* returned and the position of the function
    content, extracted, extractPc,
    \* the scanner: the entries of the folder on disk, the files
    \* getAllSourceFiles returned, the tree buildFileTree returned and the
    \* position of the open-folder handler between the two
    rootEntries, scannedFiles, fileTree, scanPc,
    \* the Editor component: the fold option and the hidden areas of the
    \* editor
    foldInactive, hiddenAreas,
    \* the defines mapping: the options file about to be loaded (its
    \* status and lines), the mapping, the keys the mapping had before the
    \* most recent load, the reply of 'get-defines' and the position
    optStatus, optLines, currentDefines, earlierKeys, reply, definesPc,
    \* the progress of one build: the entries of the folder on disk, the
    \* files scanned, the file of the loop, allSymbols.length, the events
    \* sent to the renderer and the position of the build
    buildEntries, buildFiles, buildI, allSymbolsLength, events, buildPc

dedupVars == <<symbols, map, filtered, filterPc>>

ifdefVars ==
    <<definesMap, text, lineNumber, stack, blocks, inactiveLines, ifdefPc>>

storeVars == <<fs, db, dbPath, SQL>>

callerVars == <<lastCall, savedPaths, lastSaved, roundTrip, saves>>

appVars == <<currentProjectPath, symbolIndex, handlers>>

lookupVars == <<indexCalls, lastPush, lastFound>>

extractVars == <<content, extracted, extractPc>>

scanVars == <<rootEntries, scannedFiles, fileTree, scanPc>>

foldVars == <<foldInactive, hiddenAreas>>

definesVars ==
    <<optStatus, optLines, currentDefines, earlierKeys, reply, definesPc>>

progressVars ==
    <<buildEntries, buildFiles, buildI, allSymbolsLength, events, buildPc>>

vars ==
    <<dedupVars, ifdefVars, storeVars, callerVars, appVars,
      lookupVars, extractVars, scanVars, foldVars,
      definesVars, progressVars>>

(***************************************************************************)
(* Symbols (src/src/shared/types.ts).  An optional field is a sequence of  *)
(* length at most one: <<>> when the field is absent (undefined or null),  *)
(* <<v>> when it holds v.                                                  *)
(***************************************************************************)
Absent == <<>>

Symbol(name, kind, filePath, line, column) ==
    [name |-> name, kind |-> kind, filePath |-> filePath, line |-> line,
     column |-> column, endLine |-> Absent, endColumn |-> Absent,
     signature |-> Absent]

SymbolKinds ==
    {"function", "class", "variable", "method", "struct", "enum", "typedef"}

(***************************************************************************)
(* The Deduplicator.                                                       *)
(***************************************************************************)
\* The mutant list: variables are let through.
allowedKindsWithVariable ==
    {"function", "class", "typedef", "struct", "variable"}

allowedKinds == {"function", "class", "typedef", "struct"}

invalidNames ==
    {"void", "int", "char", "float", "double", "long", "short", "unsigned",
     "signed", "bool", "size_t", "u8", "u16", "u32", "s8", "s16", "s32",
     "if", "volatile", "__volatile__",
     "BCMPOST_TRAP_RODATA", "BCMPOST_TRAP_TEXT", "BCMPOSTTRAPFN", "BCMRAMFN"}

\* `${s.name}|${s.kind}|${s.filePath}`.  Names are \w+ matches and kinds are
\* fixed words, neither holds a '|', so the joined string determines the
\* three fields and the key is modelled as their tuple.
baseKey(s) == <<s.name, s.kind, s.filePath>>

\* The mutant key: the column is left out of the function key.
keyWithoutColumn(s) == <<s.name, s.kind, s.filePath, s.line>>

\* `${s.name}|${s.kind}|${s.filePath}|${s.line}|${s.column}`
key(s) == <<s.name, s.kind, s.filePath, s.line, s.column>>

\* A JS Map keeps insertion order: a sequence of [key, value] entries with
\* pairwise distinct keys.
mapHas(m, k) == \E i \in 1..Len(m) : m[i].key = k

mapGet(m, k) == m[CHOOSE i \in 1..Len(m) : m[i].key = k].value

\* Map.set: an existing key keeps its place and takes the new value, a new
\* key is appended.
mapSet(m, k, v) ==
    IF mapHas(m, k)
    THEN [i \in 1..Len(m) |-> IF m[i].key = k THEN [key |-> k, value |-> v]
                                              ELSE m[i]]
    ELSE Append(m, [key |-> k, value |-> v])

\* The mutant list: the values in reverse insertion order.
mapValuesReversed(m) == [i \in 1..Len(m) |-> m[Len(m) + 1 - i].value]

\* Array.from(map.values())
mapValues(m) == [i \in 1..Len(m) |-> m[i].value]

\* The mutant test: a later symbol on the same line replaces the kept one.
replacesOnTie(s, existing) == s.line <= existing.line

\* s.line < existing.line
replacesExisting(s, existing) == s.line < existing.line

isTypeKind(s) ==
    s.kind = "typedef" \/ s.kind = "class" \/ s.kind = "struct"

\* One iteration of `for (const s of symbols)`.
filterIteration(m, s) ==
    IF s.kind \notin allowedKinds THEN m
    ELSE IF s.name \in invalidNames THEN m
    ELSE IF isTypeKind(s)
         THEN IF ~mapHas(m, baseKey(s))
                 \/ replacesExisting(s, mapGet(m, baseKey(s)))
              THEN mapSet(m, baseKey(s), s)
              ELSE m
         ELSE IF ~mapHas(m, key(s)) THEN mapSet(m, key(s), s) ELSE m

RECURSIVE filterLoop(_, _)
filterLoop(m, list) ==
    IF list = <<>> THEN m
    ELSE filterLoop(filterIteration(m, Head(list)), Tail(list))

filterAndDeduplicateSymbols(list) == mapValues(filterLoop(<<>>, list))

(***************************************************************************)
(* The conditional-block analyzer (updateIfdefDecorations).                *)
(*                                                                         *)
(* A line of the editor model is the record of what the regular            *)
(* expressions of the first pass read in its trimmed content:              *)
(*   word  the word that follows '#' and optional blanks ("" when the      *)
(*         line does not start with '#'),                                  *)
(*   form  what follows the word: "name" (blanks and an identifier),       *)
(*         "defined" (blanks, defined, an optional parenthesis, an         *)
(*         identifier), "notdefined" (the same after !defined), "expr"     *)
(*         (anything else) or "none",                                      *)
(*   name  the identifier of the forms name, defined and notdefined.       *)
(***************************************************************************)
Line(word, form, name) == [word |-> word, form |-> form, name |-> name]

\* /^#\s*endif\b/
isEndif(line) == line.word = "endif"

\* /^#\s*else\b/
isElse(line) == line.word = "else"

\* /^#\s*if\b/ || /^#\s*ifdef\b/ || /^#\s*ifndef\b/
isOpen(line) == line.word \in {"if", "ifdef", "ifndef"}

\* Object.prototype.hasOwnProperty.call(definesMap, name)
isDefined(defs, name) == name \in DOMAIN defs

\* The mutant truth value: an expression that cannot be evaluated counts
\* as false.
condFallbackFalse(defs, line) ==
    IF line.word = "ifdef" /\ line.form = "name" THEN (line.name \in DOMAIN defs)
    ELSE IF line.word = "ifndef" /\ line.form = "name" THEN ~(line.name \in DOMAIN defs)
    ELSE IF line.word = "if" /\ line.form = "defined" THEN (line.name \in DOMAIN defs)
    ELSE IF line.word = "if" /\ line.form = "notdefined"
         THEN ~(line.name \in DOMAIN defs)
    ELSE FALSE

\* The local truth value of an opening directive: the four matches are
\* tried in the order of the code, and the fallback is true.
cond(defs, line) ==
    IF line.word = "ifdef" /\ line.form = "name" THEN isDefined(defs, line.name)
    ELSE IF line.word = "ifndef" /\ line.form = "name"
         THEN ~isDefined(defs, line.name)
    ELSE IF line.word = "if" /\ line.form = "defined"
         THEN isDefined(defs, line.name)
    ELSE IF line.word = "if" /\ line.form = "notdefined"
         THEN ~isDefined(defs, line.name)
    ELSE TRUE

\* The mutant test: only the innermost open frame is looked at.
parentActiveTopOnly(st) == Len(st) = 0 \/ st[Len(st)].isActive

\* stack.length === 0 || stack.every(s => s.isActive)
parentActive(st) == Len(st) = 0 \/ \A i \in 1..Len(st) : st[i].isActive

Frame(startLine, isActive) == [startLine |-> startLine, isActive |-> isActive]

\* stack.pop()
pop(st) == SubSeq(st, 1, Len(st) - 1)

top(st) == st[Len(st)]

\* The block pushed when #endif at line n pops frame f.
blockClosedByEndif(f, n) ==
    [startLine |-> f.startLine, endLine |-> n, isActive |-> f.isActive,
     contentStart |-> f.startLine + 1, contentEnd |-> n - 1]

\* The mutant block: contentEnd derived from endLine as the Block comment
\* says (endLine - 1), which leaves out the last line before #else.
blockClosedByElseShort(f, n) ==
    [startLine |-> f.startLine, endLine |-> n - 1, isActive |-> f.isActive,
     contentStart |-> f.startLine + 1, contentEnd |-> n - 2]

\* The block pushed when #else at line n pops frame f.
blockClosedByElse(f, n) ==
    [startLine |-> f.startLine, endLine |-> n - 1, isActive |-> f.isActive,
     contentStart |-> f.startLine + 1, contentEnd |-> n - 1]

\* The mutant frame: the #else branch keeps the activity of the branch it
\* ends.
elseFrameNotInverted(prev, n) == Frame(n, prev.isActive)

\* The frame pushed when #else at line n pops frame prev.
elseFrame(prev, n) == Frame(n, ~prev.isActive)

\* The mutant first pass: an #else met on an empty stack opens a frame.
stackAfterElseOpens(st, defs, line, n) ==
    IF line.word = "endif" THEN (IF Len(st) > 0 THEN pop(st) ELSE st)
    ELSE IF line.word = "else"
         THEN (IF Len(st) > 0
               THEN Append(pop(st), Frame(n, ~top(st).isActive))
               ELSE Append(st, Frame(n, FALSE)))
    ELSE IF line.word \in {"if", "ifdef", "ifndef"}
         THEN Append(st, Frame(n, parentActive(st) /\ cond(defs, line)))
    ELSE st

\* The stack after the first pass has read `line` at line number n.
stackAfter(st, defs, line, n) ==
    IF isEndif(line) THEN (IF Len(st) > 0 THEN pop(st) ELSE st)
    ELSE IF isElse(line)
         THEN (IF Len(st) > 0
               THEN Append(pop(st), elseFrame(top(st), n))
               ELSE st)
    ELSE IF isOpen(line)
         THEN Append(st, Frame(n, parentActive(st) /\ cond(defs, line)))
    ELSE st

\* The completed blocks after the first pass has read `line` at line n.
blocksAfter(bl, st, line, n) ==
    IF isEndif(line) /\ Len(st) > 0
    THEN Append(bl, blockClosedByEndif(top(st), n))
    ELSE IF ~isEndif(line) /\ isElse(line) /\ Len(st) > 0
         THEN Append(bl, blockClosedByElse(top(st), n))
    ELSE bl

\* The mutant second pass: the lines after the opening line of an inactive
\* frame left on the stack are flagged too.
markInactiveWithOpenFrames(bl, lineCount) ==
    [l \in 1..lineCount |->
        \/ \E i \in 1..Len(bl) :
              /\ ~bl[i].isActive
              /\ bl[i].contentStart <= l /\ l <= bl[i].contentEnd
        \/ \E j \in 1..Len(stack) :
              ~stack[j].isActive /\ stack[j].startLine < l]

\* Second pass: the flags of lines 1..lineCount.
markInactive(bl, lineCount) ==
    [l \in 1..lineCount |->
        \E i \in 1..Len(bl) :
            /\ ~bl[i].isActive
            /\ bl[i].contentStart <= bl[i].contentEnd
            /\ bl[i].contentStart <= l /\ l <= bl[i].contentEnd]

\* The loop that builds hiddenRanges: `line` is the loop counter, start is
\* the first line of the run being read (0 for null), ranges the ranges
\* pushed so far, each [start, end] for Range(start, 1, end, maxColumn).
RECURSIVE hiddenRangesLoop(_, _, _, _, _)
hiddenRangesLoop(flags, lineCount, line, start, ranges) ==
    IF line > lineCount
    THEN IF start # 0
         THEN Append(ranges, [start |-> start, end |-> lineCount])
         ELSE ranges
    ELSE IF flags[line]
    THEN hiddenRangesLoop(flags, lineCount, line + 1,
                          IF start = 0 THEN line ELSE start, ranges)
    ELSE IF start # 0
    THEN hiddenRangesLoop(flags, lineCount, line + 1, 0,
                          Append(ranges, [start |-> start, end |-> line - 1]))
    ELSE hiddenRangesLoop(flags, lineCount, line + 1, 0, ranges)

\* The mutant fold step: with the option disabled the editor is left as
\* it is.
hiddenAreasNotCleared(fold, flags, lineCount) ==
    IF ~fold THEN hiddenAreas
    ELSE hiddenRangesLoop(flags, lineCount, 1, 0, <<>>)

\* The ranges handed to editor.setHiddenAreas at the end of
\* updateIfdefDecorations: none when the option is disabled.
hiddenAreasApplied(fold, flags, lineCount) ==
    IF ~fold THEN <<>>
    ELSE hiddenRangesLoop(flags, lineCount, 1, 0, <<>>)

\* The first pass over lines 1..n of a text: the stack and the completed
\* blocks it ends with.
RECURSIVE firstPass(_, _, _)
firstPass(defs, lines, n) ==
    IF n = 0 THEN [stack |-> <<>>, blocks |-> <<>>]
    ELSE LET before == firstPass(defs, lines, n - 1)
         IN  [stack |-> stackAfter(before.stack, defs, lines[n], n),
              blocks |-> blocksAfter(before.blocks, before.stack, lines[n], n)]

\* The flags updateIfdefDecorations computes for a text.
flaggedLines(defs, lines) ==
    markInactive(firstPass(defs, lines, Len(lines)).blocks, Len(lines))

(***************************************************************************)
(* The symbol store (SymbolDatabase).                                      *)
(*                                                                         *)
(* A database, in memory or exported to its file, is the sequence of the   *)
(* rows of its symbols table in rowid order (AUTOINCREMENT: a new row      *)
(* always comes last).  A backing file is [exists, rows]; the handle       *)
(* this.db is [open, rows], open = FALSE standing for null.                *)
(***************************************************************************)
ProjectPaths == {"/a", "/a/", "/b"}

\* path.join(projectPath, '.sourceviewer.db'): join normalizes, so a root
\* written with and without its trailing separator has one backing file.
getDbPath(projectPath) ==
    IF projectPath \in {"/a", "/a/"} THEN "/a/.sourceviewer.db"
    ELSE "/b/.sourceviewer.db"

DbPaths == {getDbPath(projectPath) : projectPath \in ProjectPaths}

NoFile == [exists |-> FALSE, rows |-> <<>>]

NullDb == [open |-> FALSE, rows |-> <<>>]

\* symbol.endLine || null, symbol.endColumn || null: 0 is falsy
numberOrNull(v) == IF v = Absent THEN Absent ELSE IF v[1] = 0 THEN Absent ELSE v

\* symbol.signature || null: '' is falsy
stringOrNull(v) == IF v = Absent THEN Absent ELSE IF v[1] = "" THEN Absent ELSE v

\* The mutant row: the project path is stored in its normalized form.
rowOfNormalized(symbol, projectPath) ==
    [name |-> symbol.name, kind |-> symbol.kind, filePath |-> symbol.filePath,
     line |-> symbol.line, column |-> symbol.column,
     endLine |-> numberOrNull(symbol.endLine),
     endColumn |-> numberOrNull(symbol.endColumn),
     signature |-> stringOrNull(symbol.signature),
     projectPath |-> IF projectPath = "/a/" THEN "/a" ELSE projectPath]

\* The row of one INSERT INTO symbols.
rowOf(symbol, projectPath) ==
    [name |-> symbol.name, kind |-> symbol.kind, filePath |-> symbol.filePath,
     line |-> symbol.line, column |-> symbol.column,
     endLine |-> numberOrNull(symbol.endLine),
     endColumn |-> numberOrNull(symbol.endColumn),
     signature |-> stringOrNull(symbol.signature),
     projectPath |-> projectPath]

\* The Symbol built from a row of the SELECT.
symbolOf(row) ==
    [name |-> row.name, kind |-> row.kind, filePath |-> row.filePath,
     line |-> row.line, column |-> row.column, endLine |-> row.endLine,
     endColumn |-> row.endColumn, signature |-> row.signature]

RECURSIVE selectSeq(_, _, _)
selectSeq(rows, projectPath, keep) ==
    IF rows = <<>> THEN <<>>
    ELSE IF (Head(rows).projectPath = projectPath) = keep
         THEN <<Head(rows)>> \o selectSeq(Tail(rows), projectPath, keep)
         ELSE selectSeq(Tail(rows), projectPath, keep)

\* The mutant query: the WHERE clause is missing.
selectAllRows(rows, projectPath) == rows

\* SELECT * FROM symbols WHERE projectPath = ?
selectByProject(rows, projectPath) == selectSeq(rows, projectPath, TRUE)

\* The mutant statement: nothing is deleted, the new rows are merged in.
deleteNothing(rows, projectPath) == rows

\* DELETE FROM symbols WHERE projectPath = ?
deleteByProject(rows, projectPath) == selectSeq(rows, projectPath, FALSE)

\* The batch of INSERTs of saveSymbols.
insertAll(rows, list, projectPath) ==
    rows \o [i \in 1..Len(list) |-> rowOf(list[i], projectPath)]

\* open: the database this.db holds afterwards, read from the backing file
\* when there is one and empty otherwise (the schema statements change no
\* row).
openedDb(files, thisDbPath) ==
    [open |-> TRUE,
     rows |-> IF files[thisDbPath].exists THEN files[thisDbPath].rows
              ELSE <<>>]

\* load: the Map built from the selected rows, a name's symbols in row
\* order, the names in order of first occurrence.
RECURSIVE symbolMapOf(_, _)
symbolMapOf(m, rows) ==
    IF rows = <<>> THEN m
    ELSE LET symbol == symbolOf(Head(rows))
             sofar == IF mapHas(m, symbol.name) THEN mapGet(m, symbol.name)
                      ELSE <<>>
         IN  symbolMapOf(mapSet(m, symbol.name, Append(sofar, symbol)),
                         Tail(rows))

loadedMap(database, projectPath) ==
    symbolMapOf(<<>>, selectByProject(database.rows, projectPath))

\* saveSymbols: the rows of this.db after the DELETE and the INSERTs.
savedRows(database, list, projectPath) ==
    insertAll(deleteByProject(database.rows, projectPath), list, projectPath)

(***************************************************************************)
(* The main process: the Open Folder and Build Symbol Data handlers and    *)
(* the SymbolParser and SymbolDatabase they share.                         *)
(*                                                                         *)
(* A handler is an async function: it runs without interruption up to an   *)
(* await of an operation of the operating system or of the sql.js loader   *)
(* (showOpenDialog, readdir, readFile, initSqlJs, buildFileTree) and is    *)
(* resumed when that operation returns.  An await of a promise that is     *)
(* already settled resumes in the same turn of the event loop and is no    *)
(* step of its own.  Each action below is one such uninterrupted run.      *)
(***************************************************************************)
MaxHandlers == 2

Handlers == 1..MaxHandlers

\* The folders the open dialog can return.
AppProjects == {"/a", "/b"}

\* What getAllSourceFiles(dirPath) yields for the folders on disk.
SourceFiles ==
    [dirPath \in AppProjects |->
        IF dirPath = "/a" THEN <<"/a/x.c", "/a/y.h">> ELSE <<"/b/z.py">>]

\* What parseCppSymbols / parsePythonSymbols extract from the content of
\* the files on disk, in the order they are pushed.
parsedSymbols(filePath) ==
    IF filePath = "/a/x.c"
    THEN <<Symbol("Foo", "function", "/a/x.c", 7, 5),
           Symbol("Foo", "class", "/a/x.c", 10, 1),
           Symbol("Foo", "class", "/a/x.c", 3, 1)>>
    ELSE IF filePath = "/a/y.h"
    THEN <<[Symbol("Bar", "typedef", "/a/y.h", 1, 1)
               EXCEPT !.signature = <<"typedef int Bar;">>]>>
    ELSE <<Symbol("main", "function", "/b/z.py", 2, 5),
           Symbol("Foo", "class", "/b/z.py", 5, 1)>>

\* The index is a plain object created by `{}`: besides its own properties
\* (the [key, value] entries) it answers for the properties of
\* Object.prototype, whose values are functions or objects: truthy and
\* without a push method.
inheritedNames ==
    {"constructor", "toString", "toLocaleString", "valueOf", "hasOwnProperty",
     "isPrototypeOf", "propertyIsEnumerable", "__proto__"}

\* `if (!this.symbolIndex[symbol.name])` finds the inherited value, no
\* array is created and `.push` is not a function: a TypeError.
pushThrows(index, symbol) ==
    ~mapHas(index, symbol.name) /\ symbol.name \in inheritedNames

\* if (!this.symbolIndex[symbol.name]) this.symbolIndex[symbol.name] = [];
\* this.symbolIndex[symbol.name].push(symbol), when it does not throw
indexPush(index, symbol) ==
    mapSet(index, symbol.name,
           Append(IF mapHas(index, symbol.name)
                  THEN mapGet(index, symbol.name) ELSE <<>>,
                  symbol))

\* list.forEach(symbol => ... push ...): the index when the loop is left,
\* at its end or by the first push that throws.
RECURSIVE indexAll(_, _)
indexAll(index, list) ==
    IF list = <<>> THEN index
    ELSE IF pushThrows(index, Head(list)) THEN index
    ELSE indexAll(indexPush(index, Head(list)), Tail(list))

\* Whether that loop is left by a TypeError.
RECURSIVE indexAllThrows(_, _)
indexAllThrows(index, list) ==
    IF list = <<>> THEN FALSE
    ELSE IF pushThrows(index, Head(list)) THEN TRUE
    ELSE indexAllThrows(indexPush(index, Head(list)), Tail(list))

\* loadSymbolDatabase: symbolMap.forEach((symbols, name) => ...), a name
\* is set when its filtered list is not empty.
RECURSIVE indexOfMap(_, _)
indexOfMap(index, symbolMap) ==
    IF symbolMap = <<>> THEN index
    ELSE LET entry == Head(symbolMap)
             kept == filterAndDeduplicateSymbols(entry.value)
         IN  indexOfMap(IF kept # <<>> THEN mapSet(index, entry.key, kept)
                        ELSE index,
                        Tail(symbolMap))

\* findDefinition(symbolName): this.symbolIndex[symbolName] || [].  The
\* result is the array of an own property, the inherited value when there
\* is one (inherited = TRUE: not an array), else [].
findDefinition(symbolName) ==
    IF mapHas(symbolIndex, symbolName)
    THEN [inherited |-> FALSE, symbols |-> mapGet(symbolIndex, symbolName)]
    ELSE [inherited |-> symbolName \in inheritedNames, symbols |-> <<>>]

\* A handler that has not been invoked.  kind is "build" or "open"; pc is
\* the await the handler is suspended at ("dialog", "scan", "read",
\* "initSql", "tree") or how it ended ("done", "refused", "failed"); error
\* names the operation whose rejection ended it.
IdleHandler ==
    [kind |-> "none", pc |-> "idle", dirPath |-> "", files |-> <<>>, i |-> 0,
     allSymbols |-> <<>>, filtered |-> <<>>, error |-> ""]

isFree(handler) == handler.pc \in {"idle", "done", "refused", "failed"}

\* A handler that has returned or thrown: its locals are gone.
ended(handler, pc, error) ==
    [IdleHandler EXCEPT !.kind = handler.kind, !.pc = pc, !.error = error]

\* The record a new invocation takes: the first one not in use.
isNext(h) ==
    isFree(handlers[h]) /\ \A g \in 1..(h - 1) : ~isFree(handlers[g])

AppInit ==
    /\ currentProjectPath = ""
    /\ symbolIndex = <<>>
    /\ handlers = [h \in Handlers |-> IdleHandler]

(***************************************************************************)
(* Bounds and inputs of the Deduplicator specification.                    *)
(***************************************************************************)
MaxSymbols == 3

InputNames == {"Foo", "int"}
InputKinds == {"class", "struct", "function", "variable"}
InputFiles == {"a.c", "b.c"}
InputLines == {1, 2}
InputColumns == {1, 2}

\* A symbol the filter drops is dropped before its position is read: one
\* position stands for all of them.
InputSymbols ==
    {s \in {Symbol(n, k, f, l, c) : n \in InputNames, k \in InputKinds,
                                   f \in InputFiles, l \in InputLines,
                                   c \in InputColumns} :
        (s.name \in invalidNames \/ s.kind \notin allowedKinds)
            => (s.filePath = "a.c" /\ s.line = 1 /\ s.column = 1)}

DedupInit ==
    /\ symbols = <<>>
    /\ map = <<>>
    /\ filtered = <<>>
    /\ filterPc = "loop"

\* The loop takes the next symbol of the input list.
FilterIterate ==
    /\ filterPc = "loop"
    /\ Len(symbols) < MaxSymbols
    /\ \E s \in InputSymbols :
          /\ symbols' = Append(symbols, s)
          /\ map' = filterIteration(map, s)
    /\ UNCHANGED <<filtered, filterPc>>
    /\ UNCHANGED <<ifdefVars, storeVars, callerVars, appVars,
                 lookupVars, extractVars, scanVars, foldVars,
                 definesVars, progressVars>>

\* The input list is exhausted: return Array.from(map.values()).
FilterReturn ==
    /\ filterPc = "loop"
    /\ filtered' = mapValues(map)
    /\ filterPc' = "returned"
    /\ UNCHANGED <<symbols, map>>
    /\ UNCHANGED <<ifdefVars, storeVars, callerVars, appVars,
                 lookupVars, extractVars, scanVars, foldVars,
                 definesVars, progressVars>>

(***************************************************************************)
(* Bounds and inputs of the analyzer specification.                        *)
(***************************************************************************)
MaxLines == 5

\* The defines mappings of the spec's examples: FOO defined without a value
\* (null), BAR defined as "1".
DefinesValue == [FOO |-> <<>>, BAR |-> <<"1">>]

DefinesMaps ==
    {[n \in keys |-> DefinesValue[n]] : keys \in {{}, {"FOO"}, {"BAR"}}}

InputLineContents ==
    {Line("ifdef", "name", "FOO"), Line("ifndef", "name", "FOO"),
     Line("if", "defined", "BAR"), Line("if", "notdefined", "BAR"),
     Line("if", "expr", ""), Line("else", "none", ""),
     Line("endif", "none", ""), Line("", "none", "")}

IfdefIdle ==
    /\ definesMap = <<>>
    /\ text = <<>>
    /\ lineNumber = 1
    /\ stack = <<>>
    /\ blocks = <<>>
    /\ inactiveLines = <<>>
    /\ ifdefPc = "firstPass"

IfdefInit ==
    /\ definesMap \in DefinesMaps
    /\ text = <<>>
    /\ lineNumber = 1
    /\ stack = <<>>
    /\ blocks = <<>>
    /\ inactiveLines = <<>>
    /\ ifdefPc = "firstPass"

\* One iteration of the first pass: lineNumber <= lineCount, the line is
\* read from the model and classified.
FirstPassLine ==
    /\ ifdefPc = "firstPass"
    /\ lineNumber <= MaxLines
    /\ \E lineContent \in InputLineContents :
          /\ text' = Append(text, lineContent)
          /\ stack' = stackAfter(stack, definesMap, lineContent, lineNumber)
          /\ blocks' = blocksAfter(blocks, stack, lineContent, lineNumber)
    /\ lineNumber' = lineNumber + 1
    /\ UNCHANGED <<definesMap, inactiveLines, ifdefPc>>
    /\ UNCHANGED <<dedupVars, storeVars, callerVars, appVars,
                 lookupVars, extractVars, scanVars, foldVars,
                 definesVars, progressVars>>

\* lineNumber > lineCount: the first pass ends, the frames still open are
\* dropped, the second pass flags the lines of the inactive blocks and the
\* fold step sets the hidden areas of the editor.
SecondPass ==
    /\ ifdefPc = "firstPass"
    /\ inactiveLines' = markInactive(blocks, Len(text))
    /\ hiddenAreas' =
          hiddenAreasApplied(foldInactive, markInactive(blocks, Len(text)),
                             Len(text))
    /\ ifdefPc' = "marked"
    /\ UNCHANGED <<definesMap, text, lineNumber, stack, blocks, foldInactive>>
    /\ UNCHANGED <<dedupVars, storeVars, callerVars, appVars,
                 lookupVars, extractVars, scanVars, definesVars,
                 progressVars>>

(***************************************************************************)
(* Bounds and inputs of the store specification: a caller that calls the   *)
(* five methods in any order, each call running to completion.             *)
(***************************************************************************)
MaxSaves == 2

FooClass == Symbol("Foo", "class", "a.c", 3, 1)

FooFunction == Symbol("Foo", "function", "a.c", 7, 5)

BarTypedef ==
    [Symbol("Bar", "typedef", "b.h", 1, 1)
        EXCEPT !.signature = <<"typedef int Bar;">>]

SavedLists ==
    {<<>>, <<FooClass>>, <<BarTypedef, FooClass>>, <<FooFunction, FooFunction>>}

NoCall == [op |-> "none", path |-> "", list |-> <<>>, result |-> <<>>,
           ok |-> TRUE]

Call(op, path, list, result, ok) ==
    [op |-> op, path |-> path, list |-> list, result |-> result, ok |-> ok]

NeverSaved == [called |-> FALSE, list |-> <<>>, dbPath |-> "", count |-> 0]

NoRoundTrip == [step |-> 0, path |-> "", list |-> <<>>]

StoreInit ==
    /\ fs = [f \in DbPaths |-> NoFile]
    /\ db = NullDb
    /\ dbPath = ""
    /\ SQL = FALSE

CallerInit ==
    /\ lastCall = NoCall
    /\ savedPaths = {}
    /\ lastSaved = [projectPath \in ProjectPaths |-> NeverSaved]
    /\ roundTrip = NoRoundTrip
    /\ saves = 0

\* open(projectPath), run to completion.
Open ==
    /\ \E projectPath \in ProjectPaths :
          /\ dbPath' = getDbPath(projectPath)
          /\ db' = openedDb(fs, getDbPath(projectPath))
          /\ lastCall' = Call("open", projectPath, <<>>, <<>>, TRUE)
          /\ roundTrip' = [step |-> 1, path |-> projectPath, list |-> <<>>]
    /\ SQL' = TRUE
    /\ UNCHANGED <<fs, savedPaths, lastSaved, saves>>
    /\ UNCHANGED <<dedupVars, ifdefVars, appVars, lookupVars,
                 extractVars, scanVars, foldVars, definesVars,
                 progressVars>>

\* exists(projectPath)
Exists ==
    /\ \E projectPath \in ProjectPaths :
          lastCall' = Call("exists", projectPath, <<>>, <<>>,
                           fs[getDbPath(projectPath)].exists)
    /\ roundTrip' = NoRoundTrip
    /\ UNCHANGED <<fs, db, dbPath, SQL, savedPaths, lastSaved, saves>>
    /\ UNCHANGED <<dedupVars, ifdefVars, appVars, lookupVars,
                 extractVars, scanVars, foldVars, definesVars,
                 progressVars>>

\* load(projectPath): open, then the SELECT.
Load ==
    /\ \E projectPath \in ProjectPaths :
          /\ dbPath' = getDbPath(projectPath)
          /\ db' = openedDb(fs, getDbPath(projectPath))
          /\ lastCall' = Call("load", projectPath, <<>>,
                              loadedMap(openedDb(fs, getDbPath(projectPath)),
                                        projectPath),
                              TRUE)
    /\ SQL' = TRUE
    /\ roundTrip' = IF roundTrip.step = 3 THEN roundTrip ELSE NoRoundTrip
    /\ UNCHANGED <<fs, savedPaths, lastSaved, saves>>
    /\ UNCHANGED <<dedupVars, ifdefVars, appVars, lookupVars,
                 extractVars, scanVars, foldVars, definesVars,
                 progressVars>>

\* saveSymbols(symbols, projectPath): throws on a null handle, else DELETE,
\* INSERTs, export and write to this.dbPath.
SaveSymbols ==
    /\ saves < MaxSaves
    /\ saves' = saves + 1
    /\ \E projectPath \in ProjectPaths, list \in SavedLists :
          IF ~db.open
          THEN /\ lastCall' = Call("saveSymbols", projectPath, list, <<>>, FALSE)
               /\ roundTrip' = NoRoundTrip
               /\ UNCHANGED <<fs, db, savedPaths, lastSaved>>
          ELSE /\ db' = [db EXCEPT !.rows = savedRows(db, list, projectPath)]
               /\ fs' = [fs EXCEPT ![dbPath] =
                            [exists |-> TRUE,
                             rows |-> savedRows(db, list, projectPath)]]
               /\ lastCall' = Call("saveSymbols", projectPath, list, <<>>, TRUE)
               /\ savedPaths' = savedPaths \cup {projectPath}
               /\ lastSaved' = [lastSaved EXCEPT ![projectPath] =
                                   [called |-> TRUE, list |-> list,
                                    dbPath |-> dbPath,
                                    count |-> lastSaved[projectPath].count + 1]]
               /\ roundTrip' =
                     IF roundTrip.step = 1 /\ roundTrip.path = projectPath
                     THEN [step |-> 2, path |-> projectPath, list |-> list]
                     ELSE NoRoundTrip
    /\ UNCHANGED <<dbPath, SQL>>
    /\ UNCHANGED <<dedupVars, ifdefVars, appVars, lookupVars,
                 extractVars, scanVars, foldVars, definesVars,
                 progressVars>>

CloseWithoutGuard ==
    /\ db' = NullDb
    /\ lastCall' = Call("close", "", <<>>, <<>>, db.open)
    /\ roundTrip' = NoRoundTrip
    /\ UNCHANGED <<fs, dbPath, SQL, savedPaths, lastSaved, saves>>
    /\ UNCHANGED <<dedupVars, ifdefVars, appVars, lookupVars,
                 extractVars, scanVars, foldVars, definesVars,
                 progressVars>>

\* close(): a no-op on a null handle.
Close ==
    /\ db' = NullDb
    /\ lastCall' = Call("close", "", <<>>, <<>>, TRUE)
    /\ roundTrip' = IF roundTrip.step = 2
                    THEN [roundTrip EXCEPT !.step = 3]
                    ELSE NoRoundTrip
    /\ UNCHANGED <<fs, dbPath, SQL, savedPaths, lastSaved, saves>>
    /\ UNCHANGED <<dedupVars, ifdefVars, appVars, lookupVars,
                 extractVars, scanVars, foldVars, definesVars,
                 progressVars>>

(***************************************************************************)
(* Bounds, inputs and actions of the main-process specification.           *)
(***************************************************************************)
\* The canonical set an earlier session of the program persisted for "/a".
EarlierRows ==
    insertAll(<<>>,
              filterAndDeduplicateSymbols(parsedSymbols("/a/x.c")
                                          \o parsedSymbols("/a/y.h")),
              "/a")

\* The backing files found on disk when the program starts: none, or the
\* one an earlier session wrote for "/a".
InitialDisks ==
    {[f \in DbPaths |-> NoFile],
     [f \in DbPaths |-> IF f = getDbPath("/a")
                        THEN [exists |-> TRUE, rows |-> EarlierRows]
                        ELSE NoFile]}

AppStoreInit ==
    /\ fs \in InitialDisks
    /\ db = NullDb
    /\ dbPath = ""
    /\ SQL = FALSE

\* open() from `new this.SQL.Database(...)` on, then what
\* buildSymbolDatabase does once `await this.database.open(dirPath)` is
\* over: saveSymbols, close, the index rebuilt from the filtered list, the
\* complete events of the parser and of the click handler.
PersistAndComplete(h, handler, thisDbPath) ==
    /\ fs' = [fs EXCEPT ![thisDbPath] =
                 [exists |-> TRUE,
                  rows |-> savedRows(openedDb(fs, thisDbPath),
                                     handler.filtered, handler.dirPath)]]
    /\ db' = NullDb
    /\ symbolIndex' = indexAll(<<>>, handler.filtered)
    /\ handlers' = [handlers EXCEPT ![h] =
                       IF indexAllThrows(<<>>, handler.filtered)
                       THEN ended(handler, "failed", "TypeError")
                       ELSE ended(handler, "done", "")]

\* open() from `new this.SQL.Database(...)` on, the rest of load(), then
\* what loadSymbolDatabase does with the Map, up to the await of
\* buildFileTree in the handler.
LoadAndIndex(h, handler, thisDbPath) ==
    /\ db' = NullDb
    /\ symbolIndex' =
          indexOfMap(<<>>, loadedMap(openedDb(fs, thisDbPath), handler.dirPath))
    /\ handlers' = [handlers EXCEPT ![h] = [handler EXCEPT !.pc = "tree"]]
    /\ UNCHANGED fs

fsTruncatedByOpen(files, thisDbPath) ==
    [files EXCEPT ![thisDbPath] = [exists |-> TRUE, rows |-> <<>>]]

\* open() writes no file: the backing files after an open that failed
fsAfterOpenFailure(files, thisDbPath) == files

\* open() fails after initSqlJs: fs.readFileSync raises on the backing
\* file found by existsSync.  this.db is not assigned, load() and the await
\* of open in buildSymbolDatabase reject, and neither loadSymbolDatabase,
\* buildSymbolDatabase nor the handlers catch: the run ends.
OpenFails(h, handler, thisDbPath, index) ==
    /\ fs[thisDbPath].exists
    /\ fs' = fsAfterOpenFailure(fs, thisDbPath)
    /\ symbolIndex' = index
    /\ handlers' = [handlers EXCEPT ![h] = ended(handler, "failed", "open")]
    /\ UNCHANGED db

\* buildSymbolDatabase from "Phase 3" on: the saving event, the filter and
\* open(dirPath), which awaits initSqlJs when sql.js is not loaded yet.
SavePhase(h, handler, index) ==
    LET saving == [handler EXCEPT
                      !.filtered = filterAndDeduplicateSymbols(handler.allSymbols)]
    IN  /\ dbPath' = getDbPath(handler.dirPath)
        /\ IF SQL
           THEN /\ \/ PersistAndComplete(h, saving,
                                         getDbPath(handler.dirPath))
                   \/ OpenFails(h, saving, getDbPath(handler.dirPath), index)
                /\ UNCHANGED SQL
           ELSE /\ handlers' = [handlers EXCEPT ![h] =
                                   [saving EXCEPT !.pc = "initSql"]]
                /\ symbolIndex' = index
                /\ UNCHANGED <<fs, db, SQL>>

\* The head of `for (const file of files)`: handler.i files are done.
NextFile(h, handler, index) ==
    IF handler.i < Len(handler.files)
    THEN /\ handlers' = [handlers EXCEPT ![h] =
                            [handler EXCEPT !.i = @ + 1, !.pc = "read"]]
         /\ symbolIndex' = index
         /\ UNCHANGED storeVars
    ELSE IF handler.kind = "build"
    THEN SavePhase(h, handler, index)
    ELSE /\ handlers' = [handlers EXCEPT ![h] = [handler EXCEPT !.pc = "tree"]]
         /\ symbolIndex' = index
         /\ UNCHANGED storeVars

\* The click handler of Build Symbol Data up to the await of readdir in
\* buildSymbolDatabase: the warning when no folder is open, else the
\* scanning events and clearIndex.
BuildSymbolDataClick ==
    /\ \E h \in Handlers :
          /\ isNext(h)
          /\ IF currentProjectPath = ""
             THEN /\ handlers' = [handlers EXCEPT ![h] =
                                     [IdleHandler EXCEPT !.kind = "build",
                                                         !.pc = "refused"]]
                  /\ UNCHANGED symbolIndex
             ELSE /\ handlers' = [handlers EXCEPT ![h] =
                                     [IdleHandler EXCEPT
                                         !.kind = "build", !.pc = "scan",
                                         !.dirPath = currentProjectPath]]
                  /\ symbolIndex' = <<>>
    /\ UNCHANGED <<currentProjectPath, storeVars>>
    /\ UNCHANGED <<dedupVars, ifdefVars, callerVars, lookupVars,
                 extractVars, scanVars, foldVars, definesVars,
                 progressVars>>

\* The Open Folder handler up to the await of showOpenDialog.
OpenFolderRequest ==
    /\ \E h \in Handlers :
          /\ isNext(h)
          /\ handlers' = [handlers EXCEPT ![h] =
                             [IdleHandler EXCEPT !.kind = "open",
                                                 !.pc = "dialog"]]
    /\ UNCHANGED <<currentProjectPath, symbolIndex, storeVars>>
    /\ UNCHANGED <<dedupVars, ifdefVars, callerVars, lookupVars,
                 extractVars, scanVars, foldVars, definesVars,
                 progressVars>>

\* The dialog is dismissed: the handler returns.
ShowOpenDialogCanceled ==
    /\ \E h \in Handlers :
          /\ handlers[h].pc = "dialog"
          /\ handlers' = [handlers EXCEPT ![h] = ended(@, "done", "")]
    /\ UNCHANGED <<currentProjectPath, symbolIndex, storeVars>>
    /\ UNCHANGED <<dedupVars, ifdefVars, callerVars, lookupVars,
                 extractVars, scanVars, foldVars, definesVars,
                 progressVars>>

\* The dialog returns a folder: currentProjectPath, then
\* loadSymbolDatabase (exists, load, open) or clearIndex and
\* indexDirectory up to its await of readdir.
ShowOpenDialogReturns ==
    /\ \E h \in Handlers, folderPath \in AppProjects :
          LET handler == [handlers[h] EXCEPT !.dirPath = folderPath]
          IN  /\ handlers[h].pc = "dialog"
              /\ currentProjectPath' = folderPath
              /\ IF fs[getDbPath(folderPath)].exists
                 THEN /\ dbPath' = getDbPath(folderPath)
                      /\ IF SQL
                         THEN /\ \/ LoadAndIndex(h, handler,
                                                 getDbPath(folderPath))
                                 \/ OpenFails(h, handler,
                                              getDbPath(folderPath),
                                              symbolIndex)
                              /\ UNCHANGED SQL
                         ELSE /\ handlers' = [handlers EXCEPT ![h] =
                                                 [handler EXCEPT !.pc = "initSql"]]
                              /\ UNCHANGED <<fs, db, SQL, symbolIndex>>
                 ELSE /\ handlers' = [handlers EXCEPT ![h] =
                                         [handler EXCEPT !.pc = "scan"]]
                      /\ symbolIndex' = <<>>
                      /\ UNCHANGED storeVars
    /\ UNCHANGED <<dedupVars, ifdefVars, callerVars, lookupVars,
                 extractVars, scanVars, foldVars, definesVars,
                 progressVars>>

\* readdir returns: getAllSourceFiles yields the files of the folder and
\* the loop over them starts.
GetAllSourceFilesReturns ==
    /\ \E h \in Handlers :
          /\ handlers[h].pc = "scan"
          /\ NextFile(h, [handlers[h] EXCEPT
                             !.files = SourceFiles[handlers[h].dirPath]],
                      symbolIndex)
    /\ UNCHANGED currentProjectPath
    /\ UNCHANGED <<dedupVars, ifdefVars, callerVars, lookupVars,
                 extractVars, scanVars, foldVars, definesVars,
                 progressVars>>

\* readFile returns the content: parseFile extracts the symbols and adds
\* them to the index, buildSymbolDatabase pushes them to allSymbols, and
\* the loop goes on.
ParseFileReads ==
    /\ \E h \in Handlers :
          LET handler == handlers[h]
              found == parsedSymbols(handler.files[handler.i])
          IN  /\ handler.pc = "read"
              /\ IF indexAllThrows(symbolIndex, found)
                 THEN /\ handlers' = [handlers EXCEPT ![h] =
                                         ended(handler, "failed", "TypeError")]
                      /\ symbolIndex' = indexAll(symbolIndex, found)
                      /\ UNCHANGED storeVars
                 ELSE NextFile(h,
                               IF handler.kind = "build"
                               THEN [handler EXCEPT !.allSymbols = @ \o found]
                               ELSE handler,
                               indexAll(symbolIndex, found))
    /\ UNCHANGED currentProjectPath
    /\ UNCHANGED <<dedupVars, ifdefVars, callerVars, lookupVars,
                 extractVars, scanVars, foldVars, definesVars,
                 progressVars>>

\* readFile rejects: parseFile has no handler for it, nor have
\* buildSymbolDatabase, indexDirectory and the two handlers, so the
\* rejection ends the run.
ParseFileReadFails ==
    /\ \E h \in Handlers :
          /\ handlers[h].pc = "read"
          /\ handlers' = [handlers EXCEPT ![h] =
                             ended(@, "failed", "readFile")]
    /\ UNCHANGED <<currentProjectPath, symbolIndex, storeVars>>
    /\ UNCHANGED <<dedupVars, ifdefVars, callerVars, lookupVars,
                 extractVars, scanVars, foldVars, definesVars,
                 progressVars>>

\* initSqlJs returns: open() goes on with the dbPath the object holds now,
\* and its caller goes on to the end of the build or to the await of
\* buildFileTree.
InitSqlJsReturns ==
    /\ \E h \in Handlers :
          /\ handlers[h].pc = "initSql"
          /\ SQL' = TRUE
          /\ \/ IF handlers[h].kind = "build"
                THEN PersistAndComplete(h, handlers[h], dbPath)
                ELSE LoadAndIndex(h, handlers[h], dbPath)
             \/ OpenFails(h, handlers[h], dbPath, symbolIndex)
    /\ UNCHANGED <<currentProjectPath, dbPath>>
    /\ UNCHANGED <<dedupVars, ifdefVars, callerVars, lookupVars,
                 extractVars, scanVars, foldVars, definesVars,
                 progressVars>>

\* initSqlJs rejects (the sql.js module cannot be loaded): open() rejects
\* and so does its caller.
InitSqlJsRejects ==
    /\ \E h \in Handlers :
          /\ handlers[h].pc = "initSql"
          /\ handlers' = [handlers EXCEPT ![h] = ended(@, "failed", "open")]
    /\ UNCHANGED <<currentProjectPath, symbolIndex, storeVars>>
    /\ UNCHANGED <<dedupVars, ifdefVars, callerVars, lookupVars,
                 extractVars, scanVars, foldVars, definesVars,
                 progressVars>>

\* buildFileTree returns: the tree is sent and the handler returns.
BuildFileTreeReturns ==
    /\ \E h \in Handlers :
          /\ handlers[h].pc = "tree"
          /\ handlers' = [handlers EXCEPT ![h] = ended(@, "done", "")]
    /\ UNCHANGED <<currentProjectPath, symbolIndex, storeVars>>
    /\ UNCHANGED <<dedupVars, ifdefVars, callerVars, lookupVars,
                 extractVars, scanVars, foldVars, definesVars,
                 progressVars>>

(***************************************************************************)
(* Bounds, inputs and actions of the index specification: callers that     *)
(* add symbols to the index of the SymbolParser, look names up and clear   *)
(* it.                                                                     *)
(***************************************************************************)
MaxIndexed == 3

IndexedSymbols ==
    {Symbol("Foo", "function", "a.c", 7, 5),
     Symbol("Foo", "class", "a.c", 3, 1),
     Symbol("toString", "function", "a.c", 9, 1),
     Symbol("constructor", "function", "a.c", 12, 1)}

LookupNames == {"Foo", "Bar", "toString", "constructor"}

NoPush == [called |-> FALSE, threw |-> FALSE]

NoFind == [called |-> FALSE, name |-> "",
           result |-> [inherited |-> FALSE, symbols |-> <<>>]]

IndexInit ==
    /\ indexCalls = <<>>
    /\ lastPush = NoPush
    /\ lastFound = NoFind

\* One turn of the forEach of parseFile (or of the rebuild at the end of
\* buildSymbolDatabase) for one symbol.
IndexSymbol ==
    /\ Len(indexCalls) < MaxIndexed
    /\ \E symbol \in IndexedSymbols :
          /\ indexCalls' = Append(indexCalls, symbol)
          /\ lastPush' = [called |-> TRUE,
                          threw |-> pushThrows(symbolIndex, symbol)]
          /\ symbolIndex' = IF pushThrows(symbolIndex, symbol) THEN symbolIndex
                            ELSE indexPush(symbolIndex, symbol)
    /\ lastFound' = NoFind
    /\ UNCHANGED <<currentProjectPath, handlers>>
    /\ UNCHANGED <<dedupVars, ifdefVars, storeVars, callerVars,
                 extractVars, scanVars, foldVars, definesVars,
                 progressVars>>

\* findDefinition(symbolName), as the find-definition handler calls it.
FindDefinition ==
    /\ \E symbolName \in LookupNames :
          lastFound' = [called |-> TRUE, name |-> symbolName,
                        result |-> findDefinition(symbolName)]
    /\ UNCHANGED <<indexCalls, lastPush, appVars>>
    /\ UNCHANGED <<dedupVars, ifdefVars, storeVars, callerVars,
                 extractVars, scanVars, foldVars, definesVars,
                 progressVars>>

\* clearIndex()
ClearIndex ==
    /\ symbolIndex' = <<>>
    /\ indexCalls' = <<>>
    /\ lastPush' = NoPush
    /\ lastFound' = NoFind
    /\ UNCHANGED <<currentProjectPath, handlers>>
    /\ UNCHANGED <<dedupVars, ifdefVars, storeVars, callerVars,
                 extractVars, scanVars, foldVars, definesVars,
                 progressVars>>

(***************************************************************************)
(* The pattern extractor for C-family text (parseCppSymbols).              *)
(*                                                                         *)
(* A line of the content is the record of what the three patterns read in  *)
(* it: form "function" (a type word, a name and an opening parenthesis),   *)
(* "class" or "struct" (the keyword and a name), "typedef" (typedef, a     *)
(* definition def, a name and a semicolon), "blank" (white space only) or  *)
(* "other".  The patterns start with ^\s* under the m flag, and \s takes   *)
(* line ends too: a match starts at the first of the blank lines that      *)
(* come right before the declaration.                                      *)
(***************************************************************************)
Declaration(form, name, def) == [form |-> form, name |-> name, def |-> def]

\* The line of match.index: getLineAndColumn counts the line ends before it.
RECURSIVE matchLine(_, _)
matchLine(lines, i) ==
    IF i > 1 /\ lines[i - 1].form = "blank" THEN matchLine(lines, i - 1) ELSE i

\* kind: 'class', for both keywords of cppClassPattern
kindOfClassPattern(declaration) == "class"

\* One while loop of parseCppSymbols: the matches of one pattern in text
\* order, each pushed as a Symbol.  forms are the forms the pattern matches.
RECURSIVE matchesFrom(_, _, _, _)
matchesFrom(lines, filePath, forms, i) ==
    IF i > Len(lines) THEN <<>>
    ELSE IF lines[i].form \notin forms
    THEN matchesFrom(lines, filePath, forms, i + 1)
    ELSE LET found == Symbol(lines[i].name,
                             IF lines[i].form \in {"class", "struct"}
                             THEN kindOfClassPattern(lines[i])
                             ELSE lines[i].form,
                             filePath, matchLine(lines, i), 1)
         IN  <<IF lines[i].form = "typedef"
               THEN [found EXCEPT !.signature = <<<<"typedef", lines[i].def,
                                                     lines[i].name, ";">>>>]
               ELSE found>>
             \o matchesFrom(lines, filePath, forms, i + 1)

\* parseCppSymbols(content, lines, filePath): functions, then classes and
\* structs, then typedefs.
parseCppSymbols(lines, filePath) ==
    matchesFrom(lines, filePath, {"function"}, 1)
    \o matchesFrom(lines, filePath, {"class", "struct"}, 1)
    \o matchesFrom(lines, filePath, {"typedef"}, 1)

(***************************************************************************)
(* Bounds, inputs and actions of the extractor specification.              *)
(***************************************************************************)
MaxContent == 3

InputDeclarations ==
    {Declaration("function", "Foo", ""), Declaration("class", "Foo", ""),
     Declaration("struct", "Foo", ""), Declaration("struct", "Bar", ""),
     Declaration("typedef", "Bar", "int"), Declaration("blank", "", ""),
     Declaration("other", "", "")}

ExtractInit ==
    /\ content = <<>>
    /\ extracted = <<>>
    /\ extractPc = "read"

\* readFile yields one more line of the content.
ContentLine ==
    /\ extractPc = "read"
    /\ Len(content) < MaxContent
    /\ \E declaration \in InputDeclarations :
          content' = Append(content, declaration)
    /\ UNCHANGED <<extracted, extractPc>>
    /\ UNCHANGED <<dedupVars, ifdefVars, storeVars, callerVars, appVars,
                 lookupVars, scanVars, foldVars, definesVars,
                 progressVars>>

\* parseFile calls parseCppSymbols on the content.
ParseCppSymbols ==
    /\ extractPc = "read"
    /\ extracted' = parseCppSymbols(content, "a.c")
    /\ extractPc' = "parsed"
    /\ UNCHANGED content
    /\ UNCHANGED <<dedupVars, ifdefVars, storeVars, callerVars, appVars,
                 lookupVars, scanVars, foldVars, definesVars,
                 progressVars>>

(***************************************************************************)
(* The scanner (getAllSourceFiles) and the file tree (buildFileTree).      *)
(*                                                                         *)
(* A directory entry is [name, isDirectory, children], children being the  *)
(* entries readdir yields for a directory, in its order.  A path is the    *)
(* sequence of the names path.join puts together below the root.           *)
(***************************************************************************)
File(name) == [name |-> name, isDirectory |-> FALSE, children |-> <<>>]

Directory(name, children) ==
    [name |-> name, isDirectory |-> TRUE, children |-> children]

\* entry.name.startsWith('.'), for the names of the inputs
startsWithDot(name) == name \in {".git", ".hidden.c"}

\* path.extname(entry.name).toLowerCase(), for the names of the inputs
extname(name) ==
    CASE name \in {"a.c", "gen.c", "dep.c", "out.c", ".hidden.c"} -> ".c"
      [] name = "util.h" -> ".h"
      [] name \in {"B.PY", "m.py", "hook.py", "bundle.py"} -> ".py"
      [] name = "notes.txt" -> ".txt"
      [] OTHER -> ""

SUPPORTED_EXTENSIONS == {".c", ".cpp", ".cc", ".cxx", ".h", ".hpp", ".py"}

\* The names getAllSourceFiles skips.
scannerSkips(name) ==
    startsWithDot(name) \/ name = "node_modules" \/ name = "__pycache__"

\* The names buildFileTree skips.
treeSkips(name) ==
    \/ startsWithDot(name)
    \/ name = "node_modules"
    \/ name = "__pycache__"
    \/ name = "build"
    \/ name = "dist"

\* getAllSourceFiles(dirPath), entries being what readdir(dirPath) yields.
RECURSIVE getAllSourceFiles(_, _)
getAllSourceFiles(dirPath, entries) ==
    IF entries = <<>> THEN <<>>
    ELSE LET entry == Head(entries)
             fullPath == Append(dirPath, entry.name)
         IN  (IF scannerSkips(entry.name) THEN <<>>
              ELSE IF entry.isDirectory
              THEN getAllSourceFiles(fullPath, entry.children)
              ELSE IF extname(entry.name) \in SUPPORTED_EXTENSIONS
              THEN <<fullPath>>
              ELSE <<>>)
             \o getAllSourceFiles(dirPath, Tail(entries))

\* a.name.localeCompare(b.name) < 0, for the names of the inputs: their
\* rank in the collation order.
nameRank(name) ==
    CASE name = "a.c" -> 1 [] name = "B.PY" -> 2 [] name = "build" -> 3
      [] name = "bundle.py" -> 4 [] name = "dep.c" -> 5 [] name = "dist" -> 6
      [] name = "gen.c" -> 7 [] name = "lib" -> 8 [] name = "m.py" -> 9
      [] name = "notes.txt" -> 10 [] name = "out.c" -> 11 [] name = "src" -> 12
      [] name = "util.h" -> 13 [] OTHER -> 0

\* The comparator of children.sort: directories first, then by name.
sortsBefore(a, b) ==
    IF a.isDirectory /\ ~b.isDirectory THEN TRUE
    ELSE IF ~a.isDirectory /\ b.isDirectory THEN FALSE
    ELSE nameRank(a.name) < nameRank(b.name)

\* children.sort(...): a stable sort, by insertion.
RECURSIVE insertNode(_, _)
insertNode(sorted, node) ==
    IF sorted = <<>> THEN <<node>>
    ELSE IF sortsBefore(node, Head(sorted)) THEN <<node>> \o sorted
    ELSE <<Head(sorted)>> \o insertNode(Tail(sorted), node)

RECURSIVE sortNodes(_, _)
sortNodes(sorted, nodes) ==
    IF nodes = <<>> THEN sorted
    ELSE sortNodes(insertNode(sorted, Head(nodes)), Tail(nodes))

\* The children of buildFileTree(dirPath) before they are sorted.
RECURSIVE treeChildren(_, _)
treeChildren(dirPath, entries) ==
    IF entries = <<>> THEN <<>>
    ELSE LET entry == Head(entries)
             fullPath == Append(dirPath, entry.name)
         IN  (IF treeSkips(entry.name) THEN <<>>
              ELSE IF entry.isDirectory
              THEN <<[name |-> entry.name, path |-> fullPath,
                      isDirectory |-> TRUE,
                      children |-> sortNodes(<<>>,
                                      treeChildren(fullPath, entry.children))]>>
              ELSE IF extname(entry.name) \in SUPPORTED_EXTENSIONS
              THEN <<[name |-> entry.name, path |-> fullPath,
                      isDirectory |-> FALSE, children |-> <<>>]>>
              ELSE <<>>)
             \o treeChildren(dirPath, Tail(entries))

\* buildFileTree(dirPath) for a directory; the name of the root itself
\* (path.basename(dirPath)) lies outside the paths of the model.
buildFileTree(dirPath, entries) ==
    [name |-> "", path |-> dirPath, isDirectory |-> TRUE,
     children |-> sortNodes(<<>>, treeChildren(dirPath, entries))]

(***************************************************************************)
(* Bounds, inputs and actions of the scanner specification.                *)
(***************************************************************************)
MaxEntries == 3

InputEntries ==
    {File("a.c"), File("B.PY"), File("notes.txt"), File(".hidden.c"),
     Directory("src", <<File("util.h")>>),
     Directory("build", <<File("gen.c")>>),
     Directory("dist", <<File("bundle.py")>>),
     Directory("node_modules", <<File("dep.c")>>),
     Directory("__pycache__", <<File("m.py")>>),
     Directory(".git", <<File("hook.py")>>),
     Directory("lib", <<File("a.c"), Directory("build", <<File("out.c")>>)>>)}

NoTree == [name |-> "", path |-> <<>>, isDirectory |-> FALSE,
           children |-> <<>>]

ScanInit ==
    /\ rootEntries = <<>>
    /\ scannedFiles = <<>>
    /\ fileTree = NoTree
    /\ scanPc = "disk"

\* The folder on disk holds one more entry.
DiskEntry ==
    /\ scanPc = "disk"
    /\ Len(rootEntries) < MaxEntries
    /\ \E entry \in InputEntries :
          /\ \A i \in 1..Len(rootEntries) : rootEntries[i].name # entry.name
          /\ rootEntries' = Append(rootEntries, entry)
    /\ UNCHANGED <<scannedFiles, fileTree, scanPc>>
    /\ UNCHANGED <<dedupVars, ifdefVars, storeVars, callerVars, appVars,
                 lookupVars, extractVars, foldVars, definesVars,
                 progressVars>>

\* indexDirectory: const files = await this.getAllSourceFiles(dirPath)
GetAllSourceFiles ==
    /\ scanPc = "disk"
    /\ scannedFiles' = getAllSourceFiles(<<>>, rootEntries)
    /\ scanPc' = "scanned"
    /\ UNCHANGED <<rootEntries, fileTree>>
    /\ UNCHANGED <<dedupVars, ifdefVars, storeVars, callerVars, appVars,
                 lookupVars, extractVars, foldVars, definesVars,
                 progressVars>>

\* The open-folder handler: await buildFileTree(folderPath)
BuildFileTree ==
    /\ scanPc = "scanned"
    /\ fileTree' = buildFileTree(<<>>, rootEntries)
    /\ scanPc' = "tree"
    /\ UNCHANGED <<rootEntries, scannedFiles>>
    /\ UNCHANGED <<dedupVars, ifdefVars, storeVars, callerVars, appVars,
                 lookupVars, extractVars, foldVars, definesVars,
                 progressVars>>

(***************************************************************************)
(* Bounds, inputs and actions of the fold specification: the Editor        *)
(* component calls updateIfdefDecorations, each call running to            *)
(* completion, when the content of the editor changes and when the fold    *)
(* check box is toggled; the hidden areas of the editor stay as the last   *)
(* call left them.                                                         *)
(***************************************************************************)
MaxFoldLines == 8

\* The pieces the content of the editor is made of.
InputSegments ==
    {<<Line("", "none", "")>>,
     <<Line("ifdef", "name", "FOO"), Line("", "none", ""),
       Line("endif", "none", "")>>,
     <<Line("ifdef", "name", "FOO"), Line("", "none", ""),
       Line("else", "none", ""), Line("", "none", ""),
       Line("endif", "none", "")>>,
     <<Line("if", "notdefined", "BAR"), Line("", "none", ""),
       Line("", "none", ""), Line("endif", "none", "")>>}

FoldInit ==
    /\ foldInactive = FALSE
    /\ hiddenAreas = <<>>

\* updateIfdefDecorations(editor, monaco, definesMap, decoRef, fold), from
\* its first line to its last.
Decorate(fold) ==
    LET passed == firstPass(definesMap, text, Len(text))
    IN  /\ lineNumber' = Len(text) + 1
        /\ stack' = passed.stack
        /\ blocks' = passed.blocks
        /\ inactiveLines' = markInactive(passed.blocks, Len(text))
        /\ hiddenAreas' =
              hiddenAreasApplied(fold, markInactive(passed.blocks, Len(text)),
                                 Len(text))
        /\ ifdefPc' = "marked"

\* The content of the editor changes: the effect that recomputes the
\* decorations is pending.
ContentChanges ==
    /\ \E segment \in InputSegments :
          /\ Len(text) + Len(segment) <= MaxFoldLines
          /\ text' = text \o segment
    /\ ifdefPc' = "firstPass"
    /\ UNCHANGED <<definesMap, lineNumber, stack, blocks, inactiveLines>>
    /\ UNCHANGED <<foldInactive, hiddenAreas>>
    /\ UNCHANGED <<dedupVars, storeVars, callerVars, appVars,
                 lookupVars, extractVars, scanVars, definesVars,
                 progressVars>>

\* The effect on [defines, activeFile] runs updateIfdefDecorations.
RecomputeDecorations ==
    /\ ifdefPc = "firstPass"
    /\ Decorate(foldInactive)
    /\ UNCHANGED <<definesMap, text, foldInactive>>
    /\ UNCHANGED <<dedupVars, storeVars, callerVars, appVars,
                 lookupVars, extractVars, scanVars, definesVars,
                 progressVars>>

\* onChange of the check box: the option is set and
\* updateIfdefDecorations runs with it.
ToggleFold ==
    /\ foldInactive' = ~foldInactive
    /\ Decorate(~foldInactive)
    /\ UNCHANGED <<definesMap, text>>
    /\ UNCHANGED <<dedupVars, storeVars, callerVars, appVars,
                 lookupVars, extractVars, scanVars, definesVars,
                 progressVars>>

(***************************************************************************)
(* The defines mapping of the main process (src/src/main/main.ts).  A line *)
(* of the options file is a record: pad says whether the raw line carries  *)
(* white space around its text, shape is the shape of the trimmed text.    *)
(*   "blank"   the empty text                                              *)
(*   "header"  '[' name ']'                                                *)
(*   "define"  '-D' name, followed by one '=' and a segment for every      *)
(*             element of rest: rest = <<>> is '-DNAME', <<"1">> is        *)
(*             '-DNAME=1', <<"a", "b">> is '-DNAME=a=b' and <<"">> is      *)
(*             '-DNAME='                                                   *)
(*   "other"   any other text, held in name                                *)
(* The mapping is a function from the own keys of currentDefines to their  *)
(* values: <<>> for null, <<rest>> for the text whose '='-separated        *)
(* segments are rest.                                                      *)
(***************************************************************************)
OptionsLine(pad, shape, name, rest) ==
    [pad |-> pad, shape |-> shape, name |-> name, rest |-> rest]

NoDefines == [n \in {} |-> <<>>]

Null == <<>>

\* rawLine.trim()
trim(rawLine) == [rawLine EXCEPT !.pad = FALSE]

\* line.startsWith('[') && line.endsWith(']')
isSectionHeader(line) == (~line.pad) /\ line.shape = "header"

inCflagsSortAlways(line) == TRUE

\* line === '[CFLAGS_sort]'
inCflagsSortAfter(line) == line.name = "CFLAGS_sort"

\* line.match(/^-D([^\s=]+)(?:=(.+))?$/): <<>> when the line does not match,
\* <<[name, value]>> when it does; the second group is absent for '-DNAME'
\* and needs at least one character after the '=', so that '-DNAME=' does
\* not match
matchDefine(line) ==
    IF line.pad \/ line.shape # "define" \/ line.rest = <<"">>
    THEN <<>>
    ELSE <<[name |-> line.name,
            value |-> IF line.rest = <<>> THEN Null ELSE <<line.rest>>]>>

\* currentDefines[name] = value
assignDefine(defines, name, value) ==
    [n \in DOMAIN defines \cup {name} |->
        IF n = name THEN value ELSE defines[n]]

keptDefines(previous) == previous

\* currentDefines = {}
resetDefines(previous) == NoDefines

\* the loop of loadDefinesFromFile over the lines from position i on
RECURSIVE definesLoop(_, _, _, _)
definesLoop(lines, i, inCflagsSort, defines) ==
    IF i > Len(lines) THEN defines
    ELSE LET line == trim(lines[i]) IN
         IF line.shape = "blank"
         THEN definesLoop(lines, i + 1, inCflagsSort, defines)
         ELSE IF isSectionHeader(line)
         THEN definesLoop(lines, i + 1, inCflagsSortAfter(line), defines)
         ELSE IF ~inCflagsSort
         THEN definesLoop(lines, i + 1, inCflagsSort, defines)
         ELSE LET match == matchDefine(line) IN
              IF match = <<>>
              THEN definesLoop(lines, i + 1, inCflagsSort, defines)
              ELSE definesLoop(lines, i + 1, inCflagsSort,
                       assignDefine(defines, match[1].name, match[1].value))

loadDefinesKeepingOnFailure(previous, status, lines) ==
    IF status # "readable" THEN previous
    ELSE definesLoop(lines, 1, FALSE, NoDefines)

\* fs.readFileSync raises for a file that cannot be read
readFileSyncThrows(status) == status = "unreadable"

\* whether loadDefinesFromFile raises: existsSync raises nothing, every
\* statement after it stands in the try block, whose catch takes every
\* error, logs it and returns
loadDefinesFromFileThrows(status) ==
    LET raisedInTry == status # "missing" /\ readFileSyncThrows(status)
        caught == raisedInTry
    IN  raisedInTry /\ ~caught

\* loadDefinesFromFile: the file is "missing" (existsSync is false),
\* "unreadable" (readFileSync throws) or "readable" with the lines given
loadDefinesFromFile(previous, status, lines) ==
    LET start == resetDefines(previous) IN
    IF status = "missing" THEN start
    ELSE IF status = "unreadable" THEN NoDefines
    ELSE definesLoop(lines, 1, FALSE, start)

MaxOptLines == 3

InputOptionsLines ==
    { OptionsLine(FALSE, "blank", "", <<>>),
      OptionsLine(FALSE, "header", "CFLAGS_sort", <<>>),
      OptionsLine(FALSE, "header", "CFLAGS", <<>>),
      OptionsLine(FALSE, "define", "FOO", <<>>),
      OptionsLine(FALSE, "define", "FOO", <<"a", "b">>),
      OptionsLine(FALSE, "define", "FOO", <<"">>),
      OptionsLine(TRUE, "define", "BAR", <<"1">>),
      OptionsLine(FALSE, "other", "-I/inc", <<>>) }

OptionsStatuses == {"readable", "missing", "unreadable"}

NoReply == <<>>

DefinesInit ==
    /\ optStatus = "readable"
    /\ optLines = <<>>
    /\ currentDefines = NoDefines
    /\ earlierKeys = {}
    /\ reply = NoReply
    /\ definesPc = "file"

OthersUnchangedByDefines ==
    UNCHANGED <<dedupVars, ifdefVars, storeVars, callerVars, appVars,
                 lookupVars, extractVars, scanVars, foldVars,
                 progressVars>>

\* one more line of the options file on disk
OptionsFileLine ==
    /\ definesPc = "file"
    /\ optStatus # "missing"
    /\ Len(optLines) < MaxOptLines
    /\ \E rawLine \in InputOptionsLines : optLines' = Append(optLines, rawLine)
    /\ UNCHANGED <<optStatus, currentDefines, earlierKeys, reply, definesPc>>
    /\ OthersUnchangedByDefines

\* a folder is opened (menu or 'open-folder' request): rtecdc.opt of the
\* folder is loaded
LoadDefinesFromRtecdcOpt ==
    /\ definesPc = "file"
    /\ currentDefines' =
           loadDefinesFromFile(currentDefines, optStatus, optLines)
    /\ earlierKeys' = DOMAIN currentDefines
    /\ definesPc' =
           IF loadDefinesFromFileThrows(optStatus) THEN "threw" ELSE "loaded"
    /\ UNCHANGED <<optStatus, optLines, reply>>
    /\ OthersUnchangedByDefines

\* 'Load Cflags': the dialog returns a file, which is loaded
LoadCflags ==
    /\ definesPc = "file"
    /\ optStatus # "missing"
    /\ currentDefines' =
           loadDefinesFromFile(currentDefines, optStatus, optLines)
    /\ earlierKeys' = DOMAIN currentDefines
    /\ definesPc' =
           IF loadDefinesFromFileThrows(optStatus) THEN "threw" ELSE "loaded"
    /\ UNCHANGED <<optStatus, optLines, reply>>
    /\ OthersUnchangedByDefines

\* 'Load Cflags' with the dialog canceled: the handler returns at once
LoadCflagsCanceled ==
    /\ definesPc = "file"
    /\ UNCHANGED <<optStatus, optLines, currentDefines, earlierKeys, reply,
                   definesPc>>
    /\ OthersUnchangedByDefines

\* the 'get-defines' request
GetDefines ==
    /\ definesPc = "loaded"
    /\ reply' = <<currentDefines>>
    /\ definesPc' = "replied"
    /\ UNCHANGED <<optStatus, optLines, currentDefines, earlierKeys>>
    /\ OthersUnchangedByDefines

\* the reply is consumed and another options file is about to be loaded
NextOptionsFile ==
    /\ definesPc \in {"loaded", "replied"}
    /\ optStatus' \in OptionsStatuses
    /\ optLines' = <<>>
    /\ reply' = NoReply
    /\ definesPc' = "file"
    /\ UNCHANGED <<currentDefines, earlierKeys>>
    /\ OthersUnchangedByDefines

(***************************************************************************)
(* The progress events of one build (SymbolParser.buildSymbolDatabase and  *)
(* the click handler of Build Symbol Data).  An event is [phase, current,  *)
(* total, currentFile], currentFile being <<>> when the event has none.    *)
(***************************************************************************)
BuildProgress(phase, current, total, currentFile) ==
    [phase |-> phase, current |-> current, total |-> total,
     currentFile |-> currentFile]

languageWithoutHeaders(ext) ==
    IF ext = ".c" THEN "c"
    ELSE IF ext \in {".cpp", ".cc", ".cxx", ".hpp"} THEN "cpp"
    ELSE IF ext = ".py" THEN "python"
    ELSE "plaintext"

\* the language chosen from path.extname(file).toLowerCase()
languageOf(ext) ==
    IF ext \in {".c", ".h"} THEN "c"
    ELSE IF ext \in {".cpp", ".cc", ".cxx", ".hpp"} THEN "cpp"
    ELSE IF ext = ".py" THEN "python"
    ELSE "plaintext"

\* path.basename(file)
basename(file) == file[Len(file)]

\* the loop `for (let i = 0; ...)` from file number i on (1-based), up to
\* its next await of parseFile: the files passed over without an event and
\* the parsing event of the first file that has a language.  The result is
\* [i, events], i being Len(files) + 1 when the loop is over.
RECURSIVE parsingLoop(_, _, _)
parsingLoop(files, i, sent) ==
    IF i > Len(files) THEN [i |-> i, events |-> sent]
    ELSE IF languageOf(extname(basename(files[i]))) = "plaintext"
    THEN parsingLoop(files, i + 1, sent)
    ELSE [i |-> i,
          events |-> Append(sent,
                        BuildProgress("parsing", i, Len(files),
                                      <<basename(files[i])>>))]

\* The numbers of symbols parseFile returns for a file of the inputs.
SymbolCounts == {0, 2}

ProgressInit ==
    /\ buildEntries = <<>>
    /\ buildFiles = <<>>
    /\ buildI = 0
    /\ allSymbolsLength = 0
    /\ events = <<>>
    /\ buildPc = "disk"

OthersUnchangedByProgress ==
    UNCHANGED <<dedupVars, ifdefVars, storeVars, callerVars, appVars,
                lookupVars, extractVars, scanVars, foldVars, definesVars>>

\* buildSymbolDatabase after a parseFile or after the scan: the loop goes
\* on to the next await of parseFile or, when it is over, to the saving
\* event, the filter and the await of database.open
AfterFile(files, i, count) ==
    LET next == parsingLoop(files, i, events) IN
    /\ buildI' = next.i
    /\ allSymbolsLength' = count
    /\ IF next.i <= Len(files)
       THEN /\ events' = next.events
            /\ buildPc' = "read"
       ELSE /\ events' = Append(next.events,
                                BuildProgress("saving", 0, count, <<>>))
            /\ buildPc' = "open"

\* The folder on disk holds one more entry.
BuildFolderEntry ==
    /\ buildPc = "disk"
    /\ Len(buildEntries) < MaxEntries
    /\ \E entry \in InputEntries :
          /\ \A i \in 1..Len(buildEntries) : buildEntries[i].name # entry.name
          /\ buildEntries' = Append(buildEntries, entry)
    /\ UNCHANGED <<buildFiles, buildI, allSymbolsLength, events, buildPc>>
    /\ OthersUnchangedByProgress

\* The click handler sends its scanning event and calls
\* buildSymbolDatabase, which sends its own and awaits getAllSourceFiles.
BuildClicked ==
    /\ buildPc = "disk"
    /\ events' = <<BuildProgress("scanning", 0, 0, <<>>),
                   BuildProgress("scanning", 0, 0, <<>>)>>
    /\ buildPc' = "scan"
    /\ UNCHANGED <<buildEntries, buildFiles, buildI, allSymbolsLength>>
    /\ OthersUnchangedByProgress

\* getAllSourceFiles returns the files
BuildScanReturns ==
    /\ buildPc = "scan"
    /\ buildFiles' = getAllSourceFiles(<<>>, buildEntries)
    /\ AfterFile(getAllSourceFiles(<<>>, buildEntries), 1, 0)
    /\ UNCHANGED buildEntries
    /\ OthersUnchangedByProgress

\* parseFile returns the symbols of the file, which are pushed to allSymbols
BuildParseReturns ==
    /\ buildPc = "read"
    /\ \E n \in SymbolCounts :
          AfterFile(buildFiles, buildI + 1, allSymbolsLength + n)
    /\ UNCHANGED <<buildEntries, buildFiles>>
    /\ OthersUnchangedByProgress

\* parseFile rejects: the build ends without further events
BuildParseRejects ==
    /\ buildPc = "read"
    /\ buildPc' = "failed"
    /\ UNCHANGED <<buildEntries, buildFiles, buildI, allSymbolsLength, events>>
    /\ OthersUnchangedByProgress

\* database.open returns: saveSymbols, close, the index, the complete
\* event of buildSymbolDatabase and the complete event of the click handler
BuildOpenReturns ==
    /\ buildPc = "open"
    /\ events' = events \o
           <<BuildProgress("complete", allSymbolsLength, allSymbolsLength,
                           <<>>),
             BuildProgress("complete", 0, 0, <<>>)>>
    /\ buildPc' = "complete"
    /\ UNCHANGED <<buildEntries, buildFiles, buildI, allSymbolsLength>>
    /\ OthersUnchangedByProgress

\* database.open rejects: the build ends without a complete event
BuildOpenRejects ==
    /\ buildPc = "open"
    /\ buildPc' = "failed"
    /\ UNCHANGED <<buildEntries, buildFiles, buildI, allSymbolsLength, events>>
    /\ OthersUnchangedByProgress

(***************************************************************************)
(* Bounds, inputs and actions of the nesting specification: the analyzer   *)
(* reads texts whose directives are balanced so far (every #else and       *)
(* #endif has an open block, a block has at most one #else) and are of the *)
(* forms #ifdef NAME, #ifndef NAME, #if defined(NAME), #if !defined(NAME), *)
(* #else and #endif.                                                       *)
(***************************************************************************)
MaxNestedLines == 6

NestedLineContents ==
    {Line("ifdef", "name", "FOO"), Line("ifndef", "name", "FOO"),
     Line("if", "defined", "BAR"), Line("if", "notdefined", "BAR"),
     Line("else", "none", ""), Line("endif", "none", ""),
     Line("", "none", "")}

\* The branches open after the lines of a text: "if" for a block that has
\* had no #else yet, "else" for one that has.
RECURSIVE openBranches(_)
openBranches(lines) ==
    IF lines = <<>> THEN <<>>
    ELSE LET before == openBranches(SubSeq(lines, 1, Len(lines) - 1))
             line == lines[Len(lines)]
         IN  IF line.word \in {"if", "ifdef", "ifndef"}
             THEN Append(before, "if")
             ELSE IF line.word = "else"
             THEN Append(SubSeq(before, 1, Len(before) - 1), "else")
             ELSE IF line.word = "endif"
             THEN SubSeq(before, 1, Len(before) - 1)
             ELSE before

\* whether a line may follow the lines of a text that is balanced so far
keepsBalance(lines, line) ==
    LET open == openBranches(lines) IN
    IF line.word = "endif" THEN Len(open) > 0
    ELSE IF line.word = "else"
    THEN Len(open) > 0 /\ open[Len(open)] = "if"
    ELSE TRUE

\* One iteration of the first pass on a line that keeps the text balanced.
NestedFirstPassLine ==
    /\ ifdefPc = "firstPass"
    /\ lineNumber <= MaxNestedLines
    /\ \E lineContent \in NestedLineContents :
          /\ keepsBalance(text, lineContent)
          /\ text' = Append(text, lineContent)
          /\ stack' = stackAfter(stack, definesMap, lineContent, lineNumber)
          /\ blocks' = blocksAfter(blocks, stack, lineContent, lineNumber)
    /\ lineNumber' = lineNumber + 1
    /\ UNCHANGED <<definesMap, inactiveLines, ifdefPc>>
    /\ UNCHANGED <<dedupVars, storeVars, callerVars, appVars,
                 lookupVars, extractVars, scanVars, foldVars,
                 definesVars, progressVars>>

(***************************************************************************)
(* Bounds, inputs and actions of the grouping specification: the           *)
(* Deduplicator on lists that hold symbols of several names, as the lists  *)
(* of a build do.                                                          *)
(***************************************************************************)
MaxGroupedSymbols == 4

GroupedSymbols ==
    {Symbol(n, k, "a.c", l, 1) :
        n \in {"Foo", "Bar"}, k \in {"class", "function", "variable"},
        l \in {1, 2}}

\* The loop takes the next symbol of the input list.
FilterIterateGrouped ==
    /\ filterPc = "loop"
    /\ Len(symbols) < MaxGroupedSymbols
    /\ \E s \in GroupedSymbols :
          /\ symbols' = Append(symbols, s)
          /\ map' = filterIteration(map, s)
    /\ UNCHANGED <<filtered, filterPc>>
    /\ UNCHANGED <<ifdefVars, storeVars, callerVars, appVars,
                 lookupVars, extractVars, scanVars, foldVars,
                 definesVars, progressVars>>

(***************************************************************************)
(* The specifications, one per component.                                  *)
(***************************************************************************)
DedupNext == FilterIterate \/ FilterReturn

InitOfDedup ==
    DedupInit /\ IfdefIdle /\ StoreInit /\ CallerInit /\ AppInit
    /\ IndexInit
    /\ ExtractInit
    /\ ScanInit
    /\ FoldInit
    /\ DefinesInit
    /\ ProgressInit

SpecDedup == InitOfDedup /\ [][DedupNext]_vars

IfdefNext == FirstPassLine \/ SecondPass

InitOfIfdef ==
    DedupInit /\ IfdefInit /\ StoreInit /\ CallerInit /\ AppInit
    /\ IndexInit
    /\ ExtractInit
    /\ ScanInit
    /\ FoldInit
    /\ DefinesInit
    /\ ProgressInit

SpecIfdef == InitOfIfdef /\ [][IfdefNext]_vars

StoreNext == Open \/ Exists \/ Load \/ SaveSymbols \/ Close

InitOfStore ==
    DedupInit /\ IfdefIdle /\ StoreInit /\ CallerInit /\ AppInit
    /\ IndexInit
    /\ ExtractInit
    /\ ScanInit
    /\ FoldInit
    /\ DefinesInit
    /\ ProgressInit

SpecStore == InitOfStore /\ [][StoreNext]_vars

AppNext ==
    \/ BuildSymbolDataClick
    \/ OpenFolderRequest
    \/ ShowOpenDialogCanceled
    \/ ShowOpenDialogReturns
    \/ GetAllSourceFilesReturns
    \/ ParseFileReads
    \/ ParseFileReadFails
    \/ InitSqlJsReturns
    \/ InitSqlJsRejects
    \/ BuildFileTreeReturns

InitOfApp ==
    DedupInit /\ IfdefIdle /\ AppStoreInit /\ CallerInit /\ AppInit
    /\ IndexInit
    /\ ExtractInit
    /\ ScanInit
    /\ FoldInit
    /\ DefinesInit
    /\ ProgressInit

SpecApp == InitOfApp /\ [][AppNext]_vars

IndexNext == IndexSymbol \/ FindDefinition \/ ClearIndex

InitOfIndex ==
    DedupInit /\ IfdefIdle /\ StoreInit /\ CallerInit /\ AppInit
    /\ IndexInit
    /\ ExtractInit
    /\ ScanInit
    /\ FoldInit
    /\ DefinesInit
    /\ ProgressInit

SpecIndex == InitOfIndex /\ [][IndexNext]_vars

ExtractNext == ContentLine \/ ParseCppSymbols

InitOfExtract ==
    DedupInit /\ IfdefIdle /\ StoreInit /\ CallerInit /\ AppInit
    /\ IndexInit
    /\ ExtractInit
    /\ ScanInit
    /\ FoldInit
    /\ DefinesInit
    /\ ProgressInit

SpecExtract == InitOfExtract /\ [][ExtractNext]_vars

ScanNext == DiskEntry \/ GetAllSourceFiles \/ BuildFileTree

InitOfScan ==
    DedupInit /\ IfdefIdle /\ StoreInit /\ CallerInit /\ AppInit
    /\ IndexInit
    /\ ExtractInit
    /\ ScanInit
    /\ FoldInit
    /\ DefinesInit
    /\ ProgressInit

SpecScan == InitOfScan /\ [][ScanNext]_vars

FoldNext == ContentChanges \/ RecomputeDecorations \/ ToggleFold

InitOfFold ==
    DedupInit /\ IfdefInit /\ StoreInit /\ CallerInit /\ AppInit
    /\ IndexInit
    /\ ExtractInit
    /\ ScanInit
    /\ FoldInit
    /\ DefinesInit
    /\ ProgressInit

SpecFold == InitOfFold /\ [][FoldNext]_vars

DefinesNext ==
    \/ OptionsFileLine
    \/ LoadDefinesFromRtecdcOpt
    \/ LoadCflags
    \/ LoadCflagsCanceled
    \/ GetDefines
    \/ NextOptionsFile

InitOfDefines ==
    /\ DedupInit
    /\ IfdefIdle
    /\ StoreInit
    /\ CallerInit
    /\ AppInit
    /\ IndexInit
    /\ ExtractInit
    /\ ScanInit
    /\ FoldInit
    /\ DefinesInit
    /\ ProgressInit

SpecDefines == InitOfDefines /\ [][DefinesNext]_vars

ProgressNext ==
    \/ BuildFolderEntry
    \/ BuildClicked
    \/ BuildScanReturns
    \/ BuildParseReturns
    \/ BuildParseRejects
    \/ BuildOpenReturns
    \/ BuildOpenRejects

InitOfProgress ==
    /\ DedupInit
    /\ IfdefIdle
    /\ StoreInit
    /\ CallerInit
    /\ AppInit
    /\ IndexInit
    /\ ExtractInit
    /\ ScanInit
    /\ FoldInit
    /\ DefinesInit
    /\ ProgressInit

SpecProgress == InitOfProgress /\ [][ProgressNext]_vars

NestingNext == NestedFirstPassLine \/ SecondPass

InitOfNesting ==
    /\ DedupInit
    /\ IfdefInit
    /\ StoreInit
    /\ CallerInit
    /\ AppInit
    /\ IndexInit
    /\ ExtractInit
    /\ ScanInit
    /\ FoldInit
    /\ DefinesInit
    /\ ProgressInit

SpecNesting == InitOfNesting /\ [][NestingNext]_vars

GroupingNext == FilterIterateGrouped \/ FilterReturn

InitOfGrouping ==
    /\ DedupInit
    /\ IfdefIdle
    /\ StoreInit
    /\ CallerInit
    /\ AppInit
    /\ IndexInit
    /\ ExtractInit
    /\ ScanInit
    /\ FoldInit
    /\ DefinesInit
    /\ ProgressInit

SpecGrouping == InitOfGrouping /\ [][GroupingNext]_vars

(***************************************************************************)
(* Claims about the Deduplicator (SpecDedup).                              *)
(***************************************************************************)
sameGroup(s, t) ==
    s.name = t.name /\ s.kind = t.kind /\ s.filePath = t.filePath

samePosition(s, t) ==
    sameGroup(s, t) /\ s.line = t.line /\ s.column = t.column

\* The input positions of the group of symbols[i].
groupOf(i) == {j \in 1..Len(symbols) : sameGroup(symbols[j], symbols[i])}

\* The member of the group of symbols[i] that the policy keeps: the first
\* one in input order among those on the smallest line.
keptOf(i) ==
    LET onMinLine == {j \in groupOf(i) :
                        \A k \in groupOf(i) : symbols[j].line <= symbols[k].line}
    IN  CHOOSE j \in onMinLine : \A k \in onMinLine : j <= k

\* C1: for every group of input symbols sharing (name, kind, filePath) with
\* kind in {class, struct, typedef} and a name that is not blocklisted, the
\* returned list holds exactly one symbol of the group, that symbol has the
\* smallest line of the group, and among the members on that line it is the
\* first one of the input.
C1_TypeKindsKeepFirstMinLine ==
    filterPc = "returned" =>
        \A i \in 1..Len(symbols) :
            (isTypeKind(symbols[i]) /\ symbols[i].name \notin invalidNames) =>
                /\ Cardinality({k \in 1..Len(filtered) :
                        sameGroup(filtered[k], symbols[i])}) = 1
                /\ \A k \in 1..Len(filtered) :
                        sameGroup(filtered[k], symbols[i]) =>
                            /\ filtered[k] = symbols[keptOf(i)]
                            /\ \A j \in groupOf(i) :
                                   filtered[k].line <= symbols[j].line

\* A returned list in which a group of three type symbols was reduced to its
\* first member on the smallest line, which is neither the first nor the last
\* member of the group.
C1_Witness ==
    /\ filterPc = "returned"
    /\ Len(symbols) = 3
    /\ \A i \in 1..3 : isTypeKind(symbols[i]) /\ sameGroup(symbols[i], symbols[1])
    /\ symbols[1].line = 2 /\ symbols[2].line = 1 /\ symbols[3].line = 1
    /\ symbols[2] # symbols[3]
    /\ filtered = <<symbols[2]>>

\* C2: function symbols with the same (name, filePath, line, column) leave
\* at most one returned entry, exactly one when the name is not blocklisted;
\* so two function symbols with a name that is not blocklisted that differ
\* in filePath, line or column are both returned, as separate entries.
C2_FunctionsExactDuplicatesOnly ==
    filterPc = "returned" =>
        /\ \A i \in 1..Len(symbols) :
              symbols[i].kind = "function" =>
                  Cardinality({k \in 1..Len(filtered) :
                      samePosition(filtered[k], symbols[i])})
                  = (IF symbols[i].name \in invalidNames THEN 0 ELSE 1)
        /\ \A i, j \in 1..Len(symbols) :
              (/\ symbols[i].kind = "function" /\ symbols[j].kind = "function"
               /\ symbols[i].name \notin invalidNames
               /\ symbols[j].name \notin invalidNames
               /\ ~samePosition(symbols[i], symbols[j])) =>
                  \E k, l \in 1..Len(filtered) :
                      /\ k # l
                      /\ samePosition(filtered[k], symbols[i])
                      /\ samePosition(filtered[l], symbols[j])

\* A returned list in which two identical function symbols collapsed and a
\* third one of the same name, file and line, in another column, survived.
C2_Witness ==
    /\ filterPc = "returned"
    /\ Len(symbols) = 3
    /\ \A i \in 1..3 : symbols[i].kind = "function"
    /\ symbols[1] = symbols[2]
    /\ sameGroup(symbols[1], symbols[3])
    /\ symbols[1].line = symbols[3].line
    /\ symbols[1].column # symbols[3].column
    /\ Len(filtered) = 2


\* C14: the output of filterAndDeduplicateSymbols holds no symbol whose
\* kind is outside {function, class, typedef, struct}, no symbol whose
\* name is in the blocklist, and every output symbol is one of the input
\* symbols with no field changed.
C14_OutputIsFilteredInput ==
    filterPc = "returned" =>
        \A k \in 1..Len(filtered) :
            /\ filtered[k].kind \in {"function", "class", "typedef", "struct"}
            /\ filtered[k].name \notin invalidNames
            /\ \E i \in 1..Len(symbols) : filtered[k] = symbols[i]

\* An input with a variable, a symbol named int and a function Foo: only
\* the function is returned.
C14_Witness ==
    /\ filterPc = "returned"
    /\ Len(symbols) = 3
    /\ symbols[1].kind = "variable"
    /\ symbols[2].name = "int" /\ symbols[2].kind = "function"
    /\ symbols[3] = Symbol("Foo", "function", "b.c", 2, 1)
    /\ filtered = <<symbols[3]>>

(***************************************************************************)
(* Claims about the conditional-block analyzer (SpecIfdef).                *)
(***************************************************************************)
\* The nesting depths of the text, read off the text alone: element p is
\* the depth in front of line p, for p up to n + 1.  An opening directive
\* adds a level, #endif removes one when there is one, #else keeps the
\* depth.
RECURSIVE depthsUpTo(_)
depthsUpTo(n) ==
    IF n = 0 THEN <<0>>
    ELSE LET D == depthsUpTo(n - 1)
             d == D[n]
             l == text[n]
         IN  Append(D, IF isEndif(l) THEN (IF d > 0 THEN d - 1 ELSE 0)
                       ELSE IF isElse(l) THEN d
                       ELSE IF isOpen(l) THEN d + 1
                       ELSE d)

depths == depthsUpTo(Len(text))

isPlain(line) == ~isEndif(line) /\ ~isElse(line) /\ ~isOpen(line)

\* The line after p that closes the frame line p opened, D being the depths
\* of the text: the first #else or #endif met at the depth line p left.
closerIn(D, p) ==
    CHOOSE c \in (p + 1)..Len(text) :
        /\ isEndif(text[c]) \/ isElse(text[c])
        /\ D[c] = D[p + 1]
        /\ \A x \in (p + 1)..(c - 1) :
              ~((isEndif(text[x]) \/ isElse(text[x])) /\ D[x] = D[p + 1])

closerOf(p) == closerIn(depths, p)

C4_TopLevelIfdefElse ==
    ifdefPc = "marked" =>
        LET D == depths
        IN  \A p \in 1..Len(text) :
              (text[p].word = "ifdef" /\ text[p].form = "name" /\ D[p] = 0) =>
                \A q \in (p + 1)..Len(text) :
                  (/\ isElse(text[q])
                   /\ \A x \in (p + 1)..(q - 1) : isPlain(text[x])) =>
                    \A r \in (q + 1)..Len(text) :
                      (/\ isEndif(text[r])
                       /\ \A x \in (q + 1)..(r - 1) : isPlain(text[x])) =>
                        LET taken == text[p].name \in DOMAIN definesMap
                        IN  /\ \A x \in (p + 1)..(q - 1) :
                                  inactiveLines[x] = ~taken
                            /\ \A x \in (q + 1)..(r - 1) :
                                  inactiveLines[x] = taken
                            /\ ~inactiveLines[p]
                            /\ ~inactiveLines[q]
                            /\ ~inactiveLines[r]

\* The spec's example with FOO undefined: #ifdef FOO / A / #else / B /
\* #endif, A flagged and B not.
C4_Witness ==
    /\ ifdefPc = "marked"
    /\ "FOO" \notin DOMAIN definesMap
    /\ text = <<Line("ifdef", "name", "FOO"), Line("", "none", ""),
                Line("else", "none", ""), Line("", "none", ""),
                Line("endif", "none", "")>>
    /\ inactiveLines = <<FALSE, TRUE, FALSE, FALSE, FALSE>>

\* C5: a frame pushed by an opening directive while a frame below it is
\* inactive is inactive; and once an inactive frame that had an opening
\* directive inside it is closed, every line between its opening line and
\* its closing line is flagged.
C5_AncestorInactivityDominates ==
    /\ \A i, j \in 1..Len(stack) :
          (i < j /\ ~stack[i].isActive /\ isOpen(text[stack[j].startLine]))
              => ~stack[j].isActive
    /\ ifdefPc = "marked" =>
          LET D == depths IN \A i \in 1..Len(blocks) :
              LET a == blocks[i].startLine
                  c == closerIn(D, a)
              IN  (/\ ~blocks[i].isActive
                   /\ \E x \in (a + 1)..(c - 1) : isOpen(text[x])) =>
                      \A l \in (a + 1)..(c - 1) : inactiveLines[l]

\* The spec's example: BAR defined, FOO not; #ifdef FOO / #if defined(BAR)
\* / X / #endif / #endif flags the three lines inside the outer block.
C5_Witness ==
    /\ ifdefPc = "marked"
    /\ DOMAIN definesMap = {"BAR"}
    /\ text = <<Line("ifdef", "name", "FOO"), Line("if", "defined", "BAR"),
                Line("", "none", ""), Line("endif", "none", ""),
                Line("endif", "none", "")>>
    /\ inactiveLines = <<FALSE, TRUE, TRUE, TRUE, FALSE>>


\* C15: when #endif or #else is met while the frame stack is empty, the
\* stack and the completed blocks are left as they are, and the flags of
\* the whole text are those of the same text with that line replaced by an
\* ordinary line.
C15_UnmatchedCloserIgnored ==
    /\ [](ifdefPc = "marked" =>
            \A p \in 1..Len(text) :
                (/\ isEndif(text[p]) \/ isElse(text[p])
                 /\ firstPass(definesMap, text, p - 1).stack = <<>>) =>
                    inactiveLines =
                        flaggedLines(definesMap,
                                     [text EXCEPT ![p] = Line("", "none", "")]))
    /\ [][(/\ Len(text') = Len(text) + 1
           /\ isEndif(text'[Len(text')]) \/ isElse(text'[Len(text')])
           /\ stack = <<>>) => (stack' = stack /\ blocks' = blocks)]_vars

\* A bare #endif in front of an inactive block, and a bare #else after it.
C15_Witness ==
    /\ ifdefPc = "marked"
    /\ "FOO" \notin DOMAIN definesMap
    /\ text = <<Line("endif", "none", ""), Line("ifdef", "name", "FOO"),
                Line("", "none", ""), Line("endif", "none", ""),
                Line("else", "none", "")>>
    /\ Len(blocks) = 1
    /\ inactiveLines = <<FALSE, FALSE, TRUE, FALSE, FALSE>>

C17_IfExpressionTruth ==
    \A j \in 1..Len(stack) :
        LET opener == text[stack[j].startLine]
            ancestorsActive == \A i \in 1..(j - 1) : stack[i].isActive
        IN  /\ (opener.word = "if" /\ opener.form = "expr") =>
                  (stack[j].isActive <=> ancestorsActive)
            /\ (opener.word = "if" /\ opener.form = "defined") =>
                  (stack[j].isActive <=>
                      (ancestorsActive /\ opener.name \in DOMAIN definesMap))
            /\ (opener.word = "if" /\ opener.form = "notdefined") =>
                  (stack[j].isActive <=>
                      (ancestorsActive /\ opener.name \notin DOMAIN definesMap))

\* With BAR defined: #if <expression> and #if defined(BAR) open active
\* frames, #if !defined(BAR) an inactive one and the #if <expression>
\* inside it an inactive one.
C17_Witness ==
    /\ "BAR" \in DOMAIN definesMap
    /\ text = <<Line("if", "expr", ""), Line("if", "defined", "BAR"),
                Line("if", "notdefined", "BAR"), Line("if", "expr", "")>>
    /\ Len(stack) = 4
    /\ stack[1].isActive /\ stack[2].isActive
    /\ ~stack[3].isActive /\ ~stack[4].isActive

(***************************************************************************)
(* Claims about the symbol store (SpecStore).                              *)
(***************************************************************************)
RECURSIVE flatten(_)
flatten(m) == IF m = <<>> THEN <<>> ELSE Head(m).value \o flatten(Tail(m))

position(s) == <<s.name, s.kind, s.filePath, s.line, s.column>>

occurrences(list, s) ==
    Cardinality({i \in 1..Len(list) : position(list[i]) = position(s)})

\* Equal as multisets on the fields name, kind, filePath, line, column.
sameMultiset(a, b) ==
    /\ Len(a) = Len(b)
    /\ \A i \in 1..Len(a) : occurrences(a, a[i]) = occurrences(b, a[i])

\* An optional field that every symbol of `list` at the position of s
\* lacks is empty in s.
absentStaysEmpty(s, list) ==
    /\ (\A i \in 1..Len(list) :
            position(list[i]) = position(s) => list[i].endLine = Absent)
        => s.endLine = Absent
    /\ (\A i \in 1..Len(list) :
            position(list[i]) = position(s) => list[i].endColumn = Absent)
        => s.endColumn = Absent
    /\ (\A i \in 1..Len(list) :
            position(list[i]) = position(s) => list[i].signature = Absent)
        => s.signature = Absent

ownedBy(projectPath, row) == row.projectPath = projectPath

\* The symbols a backing file holds for a project path, in row order.
storedFor(projectPath) ==
    LET owned(row) == ownedBy(projectPath, row)
        rows == SelectSeq(fs[getDbPath(projectPath)].rows, owned)
    IN  [i \in 1..Len(rows) |-> symbolOf(rows[i])]

loadAfterRoundTrip == lastCall.op = "load" /\ roundTrip.step = 3

\* C6 (as claimed): after open(P); saveSymbols(X, P); close(), load(P)
\* returns X as a multiset on name, kind, filePath, line, column and load(Q)
\* returns an empty map for every other project path Q.
C6_RoundTrip ==
    loadAfterRoundTrip =>
        IF lastCall.path = roundTrip.path
        THEN sameMultiset(flatten(lastCall.result), roundTrip.list)
        ELSE lastCall.result = <<>>

\* C6 (amended): after open(P); saveSymbols(X, P); close(), load(P) returns
\* X as a multiset on name, kind, filePath, line, column, absent optional
\* fields coming back empty; load(Q) for another project path Q returns the
\* records stored under Q in the backing file of Q, none of those just
\* saved for P, and an empty map when saveSymbols was never called for Q.
C6_RoundTripAmended ==
    loadAfterRoundTrip =>
        IF lastCall.path = roundTrip.path
        THEN /\ sameMultiset(flatten(lastCall.result), roundTrip.list)
             /\ \A i \in 1..Len(flatten(lastCall.result)) :
                   absentStaysEmpty(flatten(lastCall.result)[i], roundTrip.list)
        ELSE /\ sameMultiset(flatten(lastCall.result), storedFor(lastCall.path))
             /\ lastCall.path \notin savedPaths => lastCall.result = <<>>

\* load("/a") after open("/a"); saveSymbols(<<Bar, Foo>>, "/a"); close(),
\* the backing file holding a row saved for "/a/" as well.
C6_Witness ==
    /\ loadAfterRoundTrip
    /\ lastCall.path = "/a" /\ roundTrip.path = "/a"
    /\ roundTrip.list = <<BarTypedef, FooClass>>
    /\ Len(lastCall.result) = 2
    /\ \E i \in 1..Len(fs[getDbPath("/a")].rows) :
          fs[getDbPath("/a")].rows[i].projectPath = "/a/"

\* The last saveSymbols(., P) was made on a store opened for P: it wrote
\* the backing file of P.
savedOnOwnStore(projectPath) ==
    /\ lastSaved[projectPath].called
    /\ lastSaved[projectPath].dbPath = getDbPath(projectPath)

\* C7: after any sequence of saveSymbols calls for P on a store opened for
\* P, the backing file holds for P exactly the symbols of the most recent
\* call, in its order, and load(P) returns exactly those: nothing of an
\* earlier call is left and nothing is merged.
C7_WholeProjectReplace ==
    \A projectPath \in ProjectPaths :
        savedOnOwnStore(projectPath) =>
            /\ Len(storedFor(projectPath)) = Len(lastSaved[projectPath].list)
            /\ \A i \in 1..Len(storedFor(projectPath)) :
                  position(storedFor(projectPath)[i])
                      = position(lastSaved[projectPath].list[i])
            /\ (lastCall.op = "load" /\ lastCall.path = projectPath) =>
                  sameMultiset(flatten(lastCall.result),
                               lastSaved[projectPath].list)

\* load("/b") after two saveSymbols calls for "/b", the second with the
\* list <<Foo>>.
C7_Witness ==
    /\ lastCall.op = "load" /\ lastCall.path = "/b"
    /\ savedOnOwnStore("/b")
    /\ lastSaved["/b"].count = 2
    /\ lastSaved["/b"].list = <<FooClass>>
    /\ flatten(lastCall.result) = <<FooClass>>

\* C8: every record of every backing file, and of the open handle, has a
\* projectPath that saveSymbols was called with; and open, exists, load and
\* close leave every backing file as it is.
C8_RecordsOnlyFromSaveSymbols ==
    /\ [](/\ \A f \in DbPaths : \A i \in 1..Len(fs[f].rows) :
                fs[f].rows[i].projectPath \in savedPaths
          /\ \A i \in 1..Len(db.rows) : db.rows[i].projectPath \in savedPaths
          /\ \A f \in DbPaths : ~fs[f].exists => fs[f].rows = <<>>)
    /\ [][lastCall'.op \in {"open", "exists", "load", "close"} => fs' = fs]_vars

\* A backing file with two records, after close.
C8_Witness ==
    /\ lastCall.op = "close"
    /\ fs[getDbPath("/a/")].exists
    /\ Len(fs[getDbPath("/a/")].rows) = 2
    /\ savedPaths = {"/a/"}

(***************************************************************************)
(* Claims about the main process (SpecApp).                                *)
(***************************************************************************)
\* A build cycle is in progress from the call of buildSymbolDatabase to
\* its return: the handler is suspended at one of its awaits.
buildInProgress(h) ==
    handlers[h].kind = "build" /\ handlers[h].pc \in {"scan", "read", "initSql"}

\* C9: a file-read failure for one file does not abort the indexing run:
\* no build and no quick indexing ends with the rejection of a readFile,
\* the file is skipped and the run goes on.
C9_ReadFailureDoesNotAbort ==
    \A h \in Handlers :
        handlers[h].pc = "failed" => handlers[h].error # "readFile"

\* C10: build cycles are serialized by the caller: in no reachable state
\* are two build cycles in progress at once on the shared index and store.
C10_BuildCyclesSerialized ==
    \A g, h \in Handlers :
        buildInProgress(g) /\ buildInProgress(h) => g = h

(***************************************************************************)
(* Claims about the in-memory index (SpecIndex).                           *)
(***************************************************************************)
\* The symbols given to the index under a name since it was last cleared,
\* in the order they were given.
indexedUnder(symbolName) ==
    SelectSeq(indexCalls, LAMBDA symbol : symbol.name = symbolName)

\* C11: findDefinition returns, for every name, the ordered list of the
\* symbols indexed under that name, the empty list when there is none,
\* also for a name the index object inherits; and indexing a symbol under
\* any name succeeds.
C11_FindByNameReturnsIndexed ==
    /\ lastPush.called => ~lastPush.threw
    /\ lastFound.called =>
          /\ ~lastFound.result.inherited
          /\ lastFound.result.symbols = indexedUnder(lastFound.name)

(***************************************************************************)
(* Claims about the pattern extractor (SpecExtract).                       *)
(***************************************************************************)
\* C12: aggregate-type extraction keeps the keyword as written: a line
\* that starts with struct NAME yields a symbol NAME of kind struct and one
\* that starts with class NAME yields a symbol NAME of kind class.
C12_AggregateKindAsWritten ==
    extractPc = "parsed" =>
        \A i \in 1..Len(content) :
            content[i].form \in {"class", "struct"} =>
                \E k \in 1..Len(extracted) :
                    /\ extracted[k].name = content[i].name
                    /\ extracted[k].line = matchLine(content, i)
                    /\ extracted[k].kind = content[i].form

(***************************************************************************)
(* Claims about the scanner (SpecScan).                                    *)
(***************************************************************************)
\* The paths of the files of a file tree.
RECURSIVE treeFiles(_)
treeFiles(nodes) ==
    IF nodes = <<>> THEN {}
    ELSE (IF Head(nodes).isDirectory THEN treeFiles(Head(nodes).children)
          ELSE {Head(nodes).path})
         \cup treeFiles(Tail(nodes))

\* C13: getAllSourceFiles never returns a file that has a path component
\* starting with '.', or named node_modules, __pycache__, build or dist;
\* hence every file that is indexed is also in the tree of buildFileTree.
C13_ScannerSkipsIgnored ==
    /\ scanPc \in {"scanned", "tree"} =>
          \A k \in 1..Len(scannedFiles) : \A c \in 1..Len(scannedFiles[k]) :
              /\ ~startsWithDot(scannedFiles[k][c])
              /\ scannedFiles[k][c] \notin
                    {"node_modules", "__pycache__", "build", "dist"}
    /\ scanPc = "tree" =>
          \A k \in 1..Len(scannedFiles) :
              scannedFiles[k] \in treeFiles(fileTree.children)

(***************************************************************************)
(* Claims about the fold ranges (SpecFold).                                *)
(***************************************************************************)
\* The lines of a hidden range.
linesOf(range) == range.start..range.end

\* C18: after updateIfdefDecorations with the fold option enabled, the
\* hidden ranges are exactly the maximal runs of consecutive flagged lines:
\* pairwise disjoint and non-adjacent, every flagged line in exactly one
\* range and no unflagged line in any; with the option disabled the hidden
\* ranges of the editor are empty, whatever was applied before.
C18_FoldRangesAreMaximalRuns ==
    ifdefPc = "marked" =>
        IF foldInactive
        THEN /\ \A k \in 1..Len(hiddenAreas) :
                  LET r == hiddenAreas[k]
                  IN  /\ 1 <= r.start /\ r.start <= r.end /\ r.end <= Len(text)
                      /\ \A l \in linesOf(r) : inactiveLines[l]
                      /\ r.start > 1 => ~inactiveLines[r.start - 1]
                      /\ r.end < Len(text) => ~inactiveLines[r.end + 1]
             /\ \A j, k \in 1..Len(hiddenAreas) :
                  j < k => hiddenAreas[j].end + 1 < hiddenAreas[k].start
             /\ \A l \in 1..Len(text) :
                  inactiveLines[l] =>
                      Cardinality({k \in 1..Len(hiddenAreas) :
                                      l \in linesOf(hiddenAreas[k])}) = 1
        ELSE hiddenAreas = <<>>

\* Two inactive blocks of FOO, folded: two ranges of one line each.
C18_Witness ==
    /\ ifdefPc = "marked"
    /\ foldInactive
    /\ Len(text) = 6
    /\ inactiveLines = <<FALSE, TRUE, FALSE, FALSE, TRUE, FALSE>>
    /\ hiddenAreas = <<[start |-> 2, end |-> 2], [start |-> 5, end |-> 5]>>

(***************************************************************************)
(* Claims about the defines mapping (SpecDefines).                         *)
(***************************************************************************)
\* the most recent section header line before line i is '[CFLAGS_sort]'
underCflagsSort(i) ==
    \E h \in 1..(i - 1) :
        /\ optLines[h].shape = "header"
        /\ optLines[h].name = "CFLAGS_sort"
        /\ \A k \in (h + 1)..(i - 1) : optLines[k].shape # "header"

\* line i is '-DNAME' or '-DNAME=value' for the name given
definesName(i, name) ==
    /\ optLines[i].shape = "define"
    /\ optLines[i].name = name
    /\ optLines[i].rest # <<"">>

definingLines(name) ==
    {i \in 1..Len(optLines) : underCflagsSort(i) /\ definesName(i, name)}

lastOf(S) == CHOOSE i \in S : \A j \in S : j <= i

OptionsNames == {line.name : line \in InputOptionsLines}

\* C19: after loadDefinesFromFile on a readable file the mapping has a key
\* NAME exactly when a line '-DNAME' or '-DNAME=value' occurs while the most
\* recent section header is [CFLAGS_sort]; the value (of the last such line)
\* is null for the form without '=' and the text after the first '='
\* otherwise; every other line adds no key.
C19_DefinesOfCflagsSortSection ==
    (definesPc = "loaded" /\ optStatus = "readable") =>
        /\ DOMAIN currentDefines \subseteq OptionsNames
        /\ \A name \in OptionsNames :
               /\ (name \in DOMAIN currentDefines)
                      <=> (definingLines(name) # {})
               /\ (definingLines(name) # {}) =>
                      LET rest == optLines[lastOf(definingLines(name))].rest
                      IN  currentDefines[name] =
                              IF rest = <<>> THEN <<>> ELSE <<rest>>

\* a readable file was loaded in which a define with '=' in its value and a
\* padded define stand in the section and which also holds lines that add
\* nothing
C19_Witness ==
    /\ definesPc = "loaded"
    /\ optStatus = "readable"
    /\ Len(optLines) = 3
    /\ DOMAIN currentDefines = {"FOO"}
    /\ currentDefines["FOO"] = <<(<<"a", "b">>)>>
    /\ optLines[3].shape = "header"

\* C20: the mapping is replaced wholesale: what get-defines returns after a
\* load holds exactly the entries of that load, and no key that only an
\* earlier load had.
C20_ReplacedWholesale ==
    (definesPc = "replied") =>
        /\ reply = <<currentDefines>>
        /\ \A name \in DOMAIN reply[1] :
               /\ optStatus = "readable"
               /\ definingLines(name) # {}
        /\ \A name \in earlierKeys :
               (optStatus # "readable" \/ definingLines(name) = {})
                   => name \notin DOMAIN reply[1]
        /\ (optStatus = "readable") =>
               reply[1] = definesLoop(optLines, 1, FALSE, NoDefines)

\* get-defines replied after a load whose file does not define a name the
\* load before it had defined
C20_Witness ==
    /\ definesPc = "replied"
    /\ "FOO" \in earlierKeys
    /\ optStatus = "readable"
    /\ "FOO" \notin DOMAIN reply[1]
    /\ "BAR" \in DOMAIN reply[1]

\* C21: loading defines never fails: for a missing file and for a file
\* whose reading raises an error loadDefinesFromFile returns normally with
\* the empty mapping, entries of an earlier load are not kept, and no load
\* raises.
C21_LoadNeverFails ==
    /\ definesPc # "threw"
    /\ (definesPc = "loaded" /\ optStatus # "readable")
           => currentDefines = NoDefines

\* a load of an unreadable file has returned after a load that had defined
\* names
C21_Witness ==
    /\ definesPc = "loaded"
    /\ optStatus = "unreadable"
    /\ earlierKeys = {"FOO", "BAR"}

(***************************************************************************)
(* Further claims about the main process (SpecApp).                        *)
(***************************************************************************)
\* every symbol the files of a folder hold, in scanner order
RECURSIVE parsedOfFiles(_)
parsedOfFiles(files) ==
    IF files = <<>> THEN <<>>
    ELSE parsedSymbols(Head(files)) \o parsedOfFiles(Tail(files))

canonicalRows(dirPath) ==
    insertAll(<<>>,
              filterAndDeduplicateSymbols(parsedOfFiles(SourceFiles[dirPath])),
              dirPath)

\* handler h leaves its build in this step because open() failed
buildFailsAtOpen(h) ==
    /\ handlers[h].kind = "build"
    /\ ~isFree(handlers[h])
    /\ handlers'[h].pc = "failed"
    /\ handlers'[h].error = "open"

\* C22: when open() fails during a build the build ends as failed,
\* saveSymbols is not executed and no backing file changes; a backing file
\* changes only in the step of a build that has parsed every file, and
\* the rows written for the project are those of the complete filtered set.
C22_OpenFailureWritesNothing ==
    [][/\ \A h \in Handlers : buildFailsAtOpen(h) => (fs' = fs /\ db' = db)
       /\ (fs' # fs) =>
              \E h \in Handlers :
                 /\ handlers[h].kind = "build"
                 /\ ~isFree(handlers[h])
                 /\ isFree(handlers'[h])
                 /\ handlers'[h].error # "open"
                 /\ selectByProject(fs'[dbPath'].rows, handlers[h].dirPath)
                        = canonicalRows(handlers[h].dirPath)]_vars

\* a build has failed at open() and the backing file of "/a" holds what an
\* earlier session persisted
C22_Witness ==
    /\ \E h \in Handlers :
          /\ handlers[h].kind = "build"
          /\ handlers[h].pc = "failed"
          /\ handlers[h].error = "open"
    /\ fs[getDbPath("/a")] = [exists |-> TRUE, rows |-> EarlierRows]

(***************************************************************************)
(* Claims about the progress events (SpecProgress).                        *)
(***************************************************************************)
phaseRank(phase) ==
    CASE phase = "scanning" -> 1 [] phase = "parsing" -> 2
      [] phase = "saving" -> 3 [] phase = "complete" -> 4 [] OTHER -> 0

isParsing(event) == event.phase = "parsing"

\* C23: the progress events of a build are ordered scanning, parsing,
\* saving, complete, no event of an earlier phase following one of a later
\* phase; in a build that completes the parsing events carry the file name,
\* their current counts 1, 2, ... up to total, and total is the number of
\* scanned files.
C23_ProgressMonotonic ==
    /\ \A i, j \in 1..Len(events) :
          i < j => /\ phaseRank(events[i].phase) >= 1
                   /\ phaseRank(events[i].phase) <= phaseRank(events[j].phase)
    /\ (buildPc = "complete") =>
          LET parsing == SelectSeq(events, isParsing)
              scanned == getAllSourceFiles(<<>>, buildEntries)
          IN  /\ Len(parsing) = Len(scanned)
              /\ \A k \in 1..Len(parsing) :
                    /\ parsing[k].current = k
                    /\ parsing[k].total = Len(scanned)
                    /\ parsing[k].currentFile = <<scanned[k][Len(scanned[k])]>>
              /\ \E i, j, k \in 1..Len(events) :
                    /\ events[i].phase = "scanning"
                    /\ events[j].phase = "saving"
                    /\ events[k].phase = "complete"

\* a build of three scanned files, a header among them, has completed
C23_Witness ==
    /\ buildPc = "complete"
    /\ Len(buildFiles) = 3
    /\ \E k \in 1..3 : buildFiles[k] = <<"src", "util.h">>
    /\ allSymbolsLength > 0

\* handler h is a build that ends in this step
buildEnds(h) ==
    /\ handlers[h].kind = "build"
    /\ ~isFree(handlers[h])
    /\ isFree(handlers'[h])

\* handler h calls loadSymbolDatabase in this step (the dialog returned a
\* folder)
callsLoadSymbolDatabase(h) ==
    /\ handlers[h].pc = "dialog"
    /\ handlers'[h].pc \notin {"dialog", "done"}

\* C24: loadSymbolDatabase goes on to load (and returns true) exactly when
\* the backing file of the root exists, and otherwise leaves the store
\* unopened; a backing file comes into existence only by a saveSymbols for
\* its root, never by open, load, exists or close.
C24_LoadPersistedIffSavedForRoot ==
    [][/\ \A h \in Handlers :
             callsLoadSymbolDatabase(h) =>
                IF fs[getDbPath(currentProjectPath')].exists
                THEN /\ dbPath' = getDbPath(currentProjectPath')
                     /\ handlers'[h].pc \in {"initSql", "tree", "failed"}
                ELSE /\ handlers'[h].pc = "scan"
                     /\ UNCHANGED storeVars
       /\ \A p \in DbPaths :
             (~fs[p].exists /\ fs'[p].exists) =>
                \E h \in Handlers :
                   buildEnds(h) /\ getDbPath(handlers[h].dirPath) = p]_vars

(***************************************************************************)
(* Further claims about the store (SpecStore).                             *)
(***************************************************************************)
\* C25: close() is safe in every state: it raises no error, and on a store
\* that was never opened or is closed already it changes nothing; after
\* close, saveSymbols fails and leaves the backing files unchanged until
\* the store is opened again.
C25_CloseIsSafe ==
    [][/\ (lastCall'.op = "close") =>
             /\ lastCall'.ok
             /\ ~db'.open
             /\ UNCHANGED <<fs, dbPath, SQL>>
             /\ (~db.open) => UNCHANGED db
       /\ (saves' # saves /\ ~db.open) =>
             /\ lastCall'.op = "saveSymbols"
             /\ ~lastCall'.ok
             /\ UNCHANGED <<fs, db>>]_vars

\* close has been called on a store that no call has opened
C25_Witness ==
    /\ lastCall.op = "close"
    /\ SQL = FALSE
    /\ ~db.open

\* C26: whenever a lookup can be served the index holds only symbols of
\* the canonical set: allowed kinds, no blocklisted name, and at most one
\* entry per (name, kind, filePath) for class, struct and typedef.
C26_IndexServesCanonicalSet ==
    LET served == flatten(symbolIndex) IN
    /\ \A i \in 1..Len(served) :
          /\ served[i].kind \in {"function", "class", "typedef", "struct"}
          /\ served[i].name \notin invalidNames
    /\ \A i, j \in 1..Len(served) :
          (i # j /\ isTypeKind(served[i]))
              => baseKey(served[i]) # baseKey(served[j])

(***************************************************************************)
(* Claims about nested conditional blocks (SpecNesting).                   *)
(***************************************************************************)
\* the truth of the condition of an opening directive for a preprocessor
preprocessorTruth(line) ==
    IF line.word = "ifdef" \/ (line.word = "if" /\ line.form = "defined")
    THEN line.name \in DOMAIN definesMap
    ELSE line.name \notin DOMAIN definesMap

\* The conditional branches open after line n of the text, for a
\* preprocessor: TRUE for a branch that is taken.
RECURSIVE enclosingBranches(_)
enclosingBranches(n) ==
    IF n = 0 THEN <<>>
    ELSE LET before == enclosingBranches(n - 1)
             line == text[n]
         IN  IF line.word \in {"if", "ifdef", "ifndef"}
             THEN Append(before, preprocessorTruth(line))
             ELSE IF line.word = "else"
             THEN Append(SubSeq(before, 1, Len(before) - 1),
                         ~before[Len(before)])
             ELSE IF line.word = "endif"
             THEN SubSeq(before, 1, Len(before) - 1)
             ELSE before

\* a preprocessor excludes line n: an enclosing branch is not taken
excluded(n) ==
    \E d \in 1..Len(enclosingBranches(n)) : ~enclosingBranches(n)[d]

\* C27: for a balanced text of the simple directive forms, at every nesting
\* depth a non-directive line is flagged inactive exactly when a
\* preprocessor would exclude it, that is when an enclosing conditional
\* branch is not taken; the frame `!popped.isActive` pushed on #else never
\* makes the flagged lines differ from that.
C27_FlaggedIffExcluded ==
    (ifdefPc = "marked" /\ enclosingBranches(Len(text)) = <<>>) =>
        \A n \in 1..Len(text) :
            (text[n].word = "") => (inactiveLines[n] <=> excluded(n))

\* the analyzer has flagged the line of an #else branch that stands in a
\* block whose condition is true, inside an outer branch that is not taken
C27_Witness ==
    /\ ifdefPc = "marked"
    /\ definesMap = [n \in {"BAR"} |-> <<"1">>]
    /\ text = <<Line("ifdef", "name", "FOO"), Line("if", "defined", "BAR"),
                Line("else", "none", ""), Line("", "none", ""),
                Line("endif", "none", ""), Line("endif", "none", "")>>
    /\ inactiveLines[4]

\* handler g is in loadSymbolDatabase, suspended in open(), for a folder
\* other than the one handler h builds
loadsOtherProject(g, h) ==
    /\ g # h
    /\ handlers[g].kind = "open"
    /\ handlers[g].pc = "initSql"
    /\ handlers[g].dirPath # handlers[h].dirPath

\* C28: when a build of P1 and a loadSymbolDatabase of P2 interleave at
\* their awaits, the saveSymbols of the build writes the records of P1
\* into the backing file of P1 only, never into the backing file of P2.
C28_BuildWritesOwnFileOnly ==
    [][\A h, g \in Handlers :
          (buildEnds(h) /\ loadsOtherProject(g, h)) =>
             \A p \in DbPaths :
                (p # getDbPath(handlers[h].dirPath)) => fs'[p] = fs[p]]_vars

\* the symbols an index holds under a name, as a set
foundIn(index, symbolName) ==
    IF mapHas(index, symbolName)
    THEN {mapGet(index, symbolName)[i] :
             i \in 1..Len(mapGet(index, symbolName))}
    ELSE {}

\* C29: when a build of P completes, the index holds exactly the set the
\* build persisted: flattened it is the multiset load(P) returns, and a
\* loadSymbolDatabase(P) that follows finds the same symbols under every
\* name.
C29_IndexIsPersistedSet ==
    [][\A h \in Handlers :
          (buildEnds(h) /\ handlers'[h].pc = "done") =>
             LET P == handlers[h].dirPath
                 loaded == loadedMap(openedDb(fs', getDbPath(P)), P)
                 reloaded == indexOfMap(<<>>, loaded)
             IN  /\ sameMultiset(flatten(symbolIndex'), flatten(loaded))
                 /\ \A n \in {"Foo", "Bar", "main"} :
                       foundIn(reloaded, n) = foundIn(symbolIndex', n)]_vars

(***************************************************************************)
(* Claims about the Deduplicator on grouped lists (SpecGrouping).          *)
(***************************************************************************)
\* the symbols of a list that have the name given, in their order
groupByName(list, symbolName) ==
    SelectSeq(list, LAMBDA s : s.name = symbolName)

\* C30: filterAndDeduplicateSymbols is idempotent, filter(filter(X)) =
\* filter(X), and applying it to each by-name group of filter(X), as
\* loadSymbolDatabase does, returns the group unchanged.
C30_FilterIdempotentOnGroups ==
    (filterPc = "returned") =>
        /\ filtered = filterAndDeduplicateSymbols(symbols)
        /\ filterAndDeduplicateSymbols(filtered) = filtered
        /\ \A n \in {"Foo", "Bar"} :
              filterAndDeduplicateSymbols(groupByName(filtered, n))
                  = groupByName(filtered, n)

\* the filter has returned a list of two names from an input in which it
\* dropped a symbol and replaced another
C30_Witness ==
    /\ filterPc = "returned"
    /\ Len(symbols) = 4
    /\ Len(filtered) = 2
    /\ filtered[1].name = "Foo" /\ filtered[1].kind = "class"
    /\ filtered[1].line = 1
    /\ symbols[1].line = 2
    /\ filtered[2].name = "Bar"
    /\ \E i \in 1..4 : symbols[i].kind = "variable"

=============================================================================
